---- MODULE Spec2Model ----
(***************************************************************************)
(* Verification model of the genetius ingestion pipeline.                  *)
(*                                                                         *)
(*   Spec      the ingestion orchestrator (src/lib/paper-fetch.ts): two    *)
(*             overlapping invocations of fetchPapersOrchestration over    *)
(*             one papers table and one refreshLogs table.                 *)
(*   SpecRate  the annotation client (src/lib/openrouter.ts): calls of      *)
(*             generateSummaryAndKeywords, sequential and concurrent, over *)
(*             the shared lastCallTime and a clock.                        *)
(*   SpecAdmin one invocation of fetchPapersOrchestration in its most      *)
(*             general environment: the administrative reset-status sweep  *)
(*             and inserts into the papers table by concurrent writers.    *)
(*                                                                         *)
(* Every await of the code is a suspension point and therefore the end of  *)
(* an action; storage operations and the two network collaborators may     *)
(* fail at every call.                                                     *)
(***************************************************************************)
EXTENDS Integers, Sequences, FiniteSets, TLC

(***************************************************************************)
(* Bounds of the model.  PAGE_SIZE and BATCH_SIZE are the feed page size   *)
(* (100 in paper-fetch.ts:172,176) and the buffer threshold (10 in         *)
(* paper-fetch.ts:14) scaled down so that a feed of MaxFeed records spans  *)
(* more than one page and fills more than one batch.                       *)
(***************************************************************************)
MaxFeed == 3
PAGE_SIZE == 2
BATCH_SIZE == 2

\* The two overlapping invocations of fetchPapersOrchestration.
RunIds == {1, 2}

\* DOIs are numbered; a feed of n records names at most n different DOIs.
Dois == 1..MaxFeed

Max(S) == CHOOSE x \in S : \A y \in S : y <= x
Min2(a, b) == IF a <= b THEN a ELSE b

\* The feeds the external API may hold: every sequence of DOIs up to MaxFeed
\* records, duplicates included, up to renaming of the DOIs.
Feeds ==
  { s \in UNION { [1..n -> Dois] : n \in 0..MaxFeed } :
      \A i \in 1..Len(s) : s[i] <= 1 + Max({0} \cup { s[j] : j \in 1..(i-1) }) }

VARIABLES
  papers,       \* the papers table: a set of rows [doi, summary, by]
  refreshLogs,  \* the refreshLogs table: one row per run id, status "none" = no row
  feed,         \* the records the feed API holds for the interval
  run,          \* the local state of each invocation of fetchPapersOrchestration
  sweep,        \* the last response of the reset-status endpoint
  now,          \* Date.now(), in ms
  lastCallTime, \* openrouter.ts: let lastCallTime, shared by every call
  call,         \* the state of each call of generateSummaryAndKeywords
  apiKey,       \* whether OPENROUTER_API_KEY is set
  interval,     \* one interval selection: its inputs and the interval chosen
  analysis,     \* one evaluation of an annotation API response and its result
  feedCall,     \* one call of fetchPapers: the HTTP exchange and the value returned
  facets,       \* the papers' annotations, the two filter tables and the last filter query
  refresh,      \* one request to the refresh endpoint: its form, the run's outcome and the response
  cache,        \* the insights cache, the clock, the stored data and the calls of getInsights
  momentum,     \* one call of getTopicMomentum: the keyword counts stored and the list returned
  markdown,     \* one paper rendered by toMarkdown, twice: the fields and the lines produced
  resume        \* two automatic runs in a row and one feed record of the first

orchVars == <<papers, refreshLogs, feed, run, sweep>>
rateVars == <<now, lastCallTime, call, apiKey>>
pureVars == <<interval, analysis, feedCall, facets, refresh, cache, momentum, markdown, resume>>
vars == <<papers, refreshLogs, feed, run, sweep, now, lastCallTime, call, apiKey, interval,
         analysis, feedCall, facets, refresh, cache, momentum, markdown, resume>>

\* The variables of the single-function specifications other than the one
\* named are left as they are.
Others(name) ==
  /\ IF name = "interval" THEN TRUE ELSE UNCHANGED interval
  /\ IF name = "analysis" THEN TRUE ELSE UNCHANGED analysis
  /\ IF name = "feedCall" THEN TRUE ELSE UNCHANGED feedCall
  /\ IF name = "facets" THEN TRUE ELSE UNCHANGED facets
  /\ IF name = "refresh" THEN TRUE ELSE UNCHANGED refresh
  /\ IF name = "cache" THEN TRUE ELSE UNCHANGED cache
  /\ IF name = "momentum" THEN TRUE ELSE UNCHANGED momentum
  /\ IF name = "markdown" THEN TRUE ELSE UNCHANGED markdown
  /\ IF name = "resume" THEN TRUE ELSE UNCHANGED resume

----------------------------------------------------------------------------
(* Storage                                                                 *)

SeqToSet(s) == { s[i] : i \in 1..Len(s) }

DoisOf(table) == { row.doi : row \in table }

\* schema: papers.doi is column.text({ unique: true }).  rows is the sequence
\* of rows one batch inserts.
UniqueViolation(table, rows) ==
  \/ \E i \in 1..Len(rows) : rows[i].doi \in DoisOf(table)
  \/ \E i, j \in 1..Len(rows) : i # j /\ rows[i].doi = rows[j].doi

\* db.batch(insertQueries): one transaction; a rejected statement rolls all back.
\* up = FALSE is a storage failure.  The result is <<accepted, table afterwards>>.
DbBatchInsertNoUnique(table, rows, up) ==
  IF up THEN <<TRUE, table \cup SeqToSet(rows)>> ELSE <<FALSE, table>>

DbBatchInsert(table, rows, up) ==
  IF up /\ ~UniqueViolation(table, rows)
    THEN <<TRUE, table \cup SeqToSet(rows)>>
    ELSE <<FALSE, table>>

\* db.select({doi}).from(papers).where(inArray(papers.doi, dois))
SelectDoisNone(table, dois) == {}

SelectDois(table, dois) == DoisOf(table) \cap dois

\* result.papers.filter(paper => !existingDoiSet.has(paper.doi))
RECURSIVE FilterNew(_, _)
FilterNew(ps, existing) ==
  IF ps = <<>> THEN <<>>
  ELSE IF Head(ps) \in existing THEN FilterNew(Tail(ps), existing)
  ELSE <<Head(ps)>> \o FilterNew(Tail(ps), existing)

\* The page the feed returns at a cursor: at most PAGE_SIZE records.
FeedPage(cursor) ==
  SubSeq(feed, Min2(cursor, Len(feed)) + 1, Min2(cursor + PAGE_SIZE, Len(feed)))

\* The row insertPapersBatch writes for a buffered record (summary present).
Row(d, r) == [doi |-> d, summary |-> TRUE, by |-> r]
RECURSIVE Rows(_, _)
Rows(buf, r) == IF buf = <<>> THEN <<>> ELSE <<Row(Head(buf), r)>> \o Rows(Tail(buf), r)

----------------------------------------------------------------------------
(* Evaluation of the annotation API's response: PaperAnalysisSchema and     *)
(* generateSummaryAndKeywords, lines 60-94 (openrouter.ts)                  *)

\* JSON values.  A string is the sequence of its characters.
Str(c) == [t |-> "string", s |-> c, a |-> <<>>]
Arr(items) == [t |-> "array", s |-> <<>>, a |-> items]
Atom(type) == [t |-> type, s |-> <<>>, a |-> <<>>]
Obj(summary, keywords, modelOrganism) ==
  [t |-> "object", summary |-> summary, keywords |-> keywords, modelOrganism |-> modelOrganism]
\* parsed JSON that is no object has none of the keys
NonObj(type) == [Obj(Atom("undefined"), Atom("undefined"), Atom("undefined")) EXCEPT !.t = type]

\* String.prototype.trim
RECURSIVE TrimStart(_)
TrimStart(s) == IF s # <<>> /\ Head(s) = " " THEN TrimStart(Tail(s)) ELSE s
RECURSIVE TrimEnd(_)
TrimEnd(s) == IF s # <<>> /\ s[Len(s)] = " " THEN TrimEnd(SubSeq(s, 1, Len(s) - 1)) ELSE s
TrimNone(s) == s

Trim(s) == TrimEnd(TrimStart(s))

\* z.array(z.string().trim()): the elements, trimmed
MapTrim(items) == [i \in 1..Len(items) |-> Trim(items[i].s)]

\* val.filter((k) => k.length > 0)
FilterKeepAll(ks) == ks

RECURSIVE FilterNonEmpty(_)
FilterNonEmpty(ks) ==
  IF ks = <<>> THEN <<>>
  ELSE IF Len(Head(ks)) > 0 THEN <<Head(ks)>> \o FilterNonEmpty(Tail(ks))
  ELSE FilterNonEmpty(Tail(ks))

\* .slice(0, 5)
KeywordLimit == 5
Slice(ks, n) == SubSeq(ks, 1, Min2(n, Len(ks)))

NoData == [summary |-> <<>>, keywords |-> <<>>, modelOrganism |-> Atom("undefined")]

\* PaperAnalysisSchema.safeParse(parsed)
safeParse(parsed) ==
  LET summaryOk == parsed.summary.t = "string"
      keywordsOk == /\ parsed.keywords.t = "array"
                    /\ \A i \in 1..Len(parsed.keywords.a) : parsed.keywords.a[i].t = "string"
      organismOk == parsed.modelOrganism.t \in {"undefined", "string"}
  IN IF parsed.t = "object" /\ summaryOk /\ keywordsOk /\ organismOk
       THEN [success |-> TRUE,
             data |-> [summary |-> Trim(parsed.summary.s),
                       keywords |-> Slice(FilterNonEmpty(MapTrim(parsed.keywords.a)), KeywordLimit),
                       modelOrganism |-> IF parsed.modelOrganism.t = "string"
                                           THEN Str(Trim(parsed.modelOrganism.s))
                                           ELSE Atom("undefined")]]
       ELSE [success |-> FALSE, data |-> NoData]

\* message.content and message.reasoning: undefined, "", text that is not
\* JSON, or the text of a JSON value
Text(kind, value) == [kind |-> kind, value |-> value]
NoText(kind) == Text(kind, NonObj("null"))
Falsy(text) == text.kind \in {"undefined", "empty"}

\* const responseText = content || reasoning
ResponseTextContentOnly(content, reasoning) == content

ResponseText(content, reasoning) == IF Falsy(content) THEN reasoning ELSE content

\* What "await fetchWithRetry" hands to line 60: fetch threw, or a response
\* whose body response.json() can read (dataOk) or not.
ApiResponse(thrown, status, dataOk, content, reasoning) ==
  [thrown |-> thrown, status |-> status, dataOk |-> dataOk,
   content |-> content, reasoning |-> reasoning]

ErrorResult(message, status) == [error |-> message, status |-> status, data |-> NoData]

\* generateSummaryAndKeywords, lines 60-94.  error = "" is a PaperAnalysis.
EvaluateResponse(resp) ==
  IF resp.thrown THEN ErrorResult("Failed to generate paper analysis", 0)
  ELSE IF ~(resp.status \in 200..299) THEN ErrorResult("OpenRouter API error", resp.status)
  ELSE IF ~resp.dataOk THEN ErrorResult("Failed to generate paper analysis", 0)
  ELSE LET responseText == ResponseText(resp.content, resp.reasoning) IN
       IF Falsy(responseText) THEN ErrorResult("No response returned from API", 0)
       ELSE IF responseText.kind # "json" THEN ErrorResult("Invalid JSON returned from API", 0)
       ELSE LET result == safeParse(responseText.value) IN
            IF ~result.success THEN ErrorResult("Invalid JSON structure returned from API", 0)
            ELSE [error |-> "", status |-> 0, data |-> result.data]

\* Bound: the longest keywords array enumerated.
MaxKw == 7

KwStrings == {<<" ">>, <<"a">>, <<" ", "b", " ">>}
SummaryStrings == {<<>>, <<" ", "a", " ">>, <<"a", " ", "b">>}
KwArrays == UNION { [1..n -> { Str(c) : c \in KwStrings }] : n \in 0..MaxKw }

\* The JSON the model may return: objects of the shape asked for, with
\* every keywords array, and values that depart from it key by key.
WellFormedDocs ==
  { Obj(Str(s), Arr(k), m) :
      s \in SummaryStrings, k \in KwArrays, m \in {Atom("undefined"), Str(<<" ", "c">>)} }
OtherDocs ==
  { Obj(s, k, m) :
      s \in {Atom("undefined"), Atom("number"), Str(<<"a">>)},
      k \in {Atom("undefined"), Str(<<"a">>), Arr(<<Atom("number")>>),
             Arr(<<Str(<<"a">>), Atom("number")>>), Arr(<<Str(<<"a">>), Str(<<>>)>>)},
      m \in {Atom("undefined"), Atom("null"), Atom("number"), Str(<<"c">>)} }
  \cup {NonObj("number"), NonObj("null"), NonObj("array")}

SmallTexts ==
  {NoText("undefined"), NoText("empty"), NoText("notJson"),
   Text("json", Obj(Str(<<"a">>), Arr(<<Str(<<"b">>)>>), Atom("undefined"))),
   Text("json", Obj(Str(<<"a">>), Atom("undefined"), Atom("undefined")))}

ResponseStatuses == {200, 201, 429, 500}

ApiResponses ==
  { ApiResponse(FALSE, 200, TRUE, Text("json", d), NoText("undefined")) :
      d \in WellFormedDocs \cup OtherDocs }
  \cup { ApiResponse(FALSE, st, TRUE, c, r) :
           st \in ResponseStatuses, c \in SmallTexts, r \in SmallTexts }
  \cup { ApiResponse(FALSE, st, FALSE, NoText("undefined"), NoText("undefined")) :
           st \in ResponseStatuses }
  \cup { ApiResponse(TRUE, 0, FALSE, NoText("undefined"), NoText("undefined")) }

IdleAnalysis ==
  [ pc |-> "idle",
    response |-> ApiResponse(TRUE, 0, FALSE, NoText("undefined"), NoText("undefined")),
    result |-> ErrorResult("none", 0) ]

\* generateSummaryAndKeywords from the settling of fetchWithRetry to its return
Analyse ==
  /\ analysis.pc = "idle"
  /\ analysis' = [analysis EXCEPT !.pc = "done",
                                  !.result = EvaluateResponse(analysis.response)]
  /\ UNCHANGED <<orchVars, rateVars>>
  /\ Others("analysis")

AnalysisInputs == { [IdleAnalysis EXCEPT !.response = resp] : resp \in ApiResponses }

----------------------------------------------------------------------------
(* The annotation client: generateSummaryAndKeywords (openrouter.ts)       *)

DELAY_MS == 1000
maxRetries == 3

\* Bound: the clock ticks observed.
MaxTicks == 6

\* The two calls observed, sequential or concurrent (as in the Promise.all
\* of migrate-methods.ts).
CallIds == {1, 2}

\* The clock advances in steps of half the delay.  The process starts long
\* after the epoch, so that the initial lastCallTime = 0 delays no one.
TickMs == DELAY_MS \div 2
Epoch == 2 * DELAY_MS
Horizon == Epoch + MaxTicks * TickMs

\* What the annotation API may answer: the status, the Retry-After header
\* (absent, a number of seconds, or an HTTP date that many seconds ahead) and
\* the kind of body.
Statuses == {200, 429, 500}
RetryAfterHeaders == {<<"absent", 0>>, <<"seconds", 0>>, <<"seconds", 1>>, <<"date", 1>>}
Bodies == {"empty", "notJson", "badShape", "good"}

InitCall ==
  [ pc |-> "idle", attempt |-> 0, wakeAt |-> 0, done |-> FALSE, error |-> "", status |-> 0,
    \* history, not program state
    pred |-> {}, stamp |-> 0, firstSend |-> 0, requests |-> 0, statuses |-> <<>>,
    body |-> "none",
    \* while backing off: the Retry-After header of the 429 and when it arrived
    header |-> <<"absent", 0>>, gotAt |-> 0 ]

\* The process has made no call yet (let lastCallTime = 0), or its latest
\* earlier call was stamped one tick ago.
InitClient ==
  /\ now = Epoch
  /\ lastCallTime \in {0, Epoch - TickMs}
  /\ call = [c \in CallIds |-> InitCall]

\* enforceRateLimit: the time to sleep before lastCallTime is set
RateLimitDelayNone(t, last) == 0

RateLimitDelay(t, last) ==
  LET timeSinceLastCall == t - last IN
  IF timeSinceLastCall < DELAY_MS THEN DELAY_MS - timeSinceLastCall ELSE 0

\* fetchWithRetry: whether a response is followed by another attempt
RetriesAlways(status, attempt) == status = 429

Retries(status, attempt) == status = 429 /\ attempt < maxRetries - 1

\* parseInt(retryAfter, 10): <<isNaN, value>>; an HTTP date is not a number
ParseInt(header) == IF header[1] = "seconds" THEN <<FALSE, header[2]>> ELSE <<TRUE, 0>>

\* fetchWithRetry: retryAfter ? parseInt(retryAfter, 10) * 1000 : 1000 * (attempt + 1),
\* as the time after which setTimeout(resolve, delay) fires: at once for NaN
RetryDelay(header, attempt) ==
  IF header[1] # "absent"
    THEN (IF ParseInt(header)[1] THEN 0 ELSE ParseInt(header)[2] * 1000)
    ELSE 1000 * (attempt + 1)

\* The message each kind of body stands for.
ContentOf(body) ==
  IF body = "empty" THEN NoText("undefined")
  ELSE IF body = "notJson" THEN NoText("notJson")
  ELSE IF body = "badShape" THEN Text("json", Obj(Atom("undefined"), Arr(<<>>), Atom("undefined")))
  ELSE Text("json", Obj(Str(<<"a">>), Arr(<<Str(<<"b">>)>>), Atom("undefined")))

\* generateSummaryAndKeywords, lines 60-91: the result for the response that
\* fetchWithRetry returned.  error = "" is a PaperAnalysis.
Classify(status, body) ==
  LET res == EvaluateResponse(ApiResponse(FALSE, status, TRUE, ContentOf(body), NoText("undefined")))
  IN [error |-> res.error, status |-> res.status]

Finish(s, res) ==
  [s EXCEPT !.pc = "done", !.done = TRUE, !.error = res.error, !.status = res.status,
            !.attempt = 0, !.wakeAt = 0]

\* enforceRateLimit returns (lastCallTime = Date.now()); then the credential
\* check and the first request of fetchWithRetry, without a timer in between.
AfterRateLimit(c, s) ==
  /\ lastCallTime' = now
  /\ call' = [call EXCEPT ![c] =
       LET u == [s EXCEPT !.stamp = now] IN
       IF ~apiKey THEN Finish(u, [error |-> "OPENROUTER_API_KEY not set", status |-> 0])
       ELSE [u EXCEPT !.pc = "awaitResponse", !.attempt = 0,
                      !.firstSend = now, !.requests = 1]]

\* A call of generateSummaryAndKeywords enters enforceRateLimit.  Calls are
\* numbered in the order in which they are made.
Begin(c) ==
  /\ call[c].pc = "idle"
  /\ \A q \in CallIds : q < c => call[q].pc # "idle"
  /\ LET delay == RateLimitDelay(now, lastCallTime)
         s == [call[c] EXCEPT !.pred = { q \in CallIds : call[q].done }]
     IN IF delay > 0
          THEN /\ call' = [call EXCEPT ![c] = [s EXCEPT !.pc = "rateSleep", !.wakeAt = now + delay]]
               /\ UNCHANGED lastCallTime
          ELSE AfterRateLimit(c, s)
  /\ UNCHANGED <<now, apiKey, orchVars, pureVars>>

\* The timer of enforceRateLimit fires (at its deadline or later).
WakeRateLimit(c) ==
  /\ call[c].pc = "rateSleep"
  /\ now >= call[c].wakeAt
  /\ AfterRateLimit(c, call[c])
  /\ UNCHANGED <<now, apiKey, orchVars, pureVars>>

\* await fetch(...) settles: a response, or an exception (network, timeout).
Response(c) ==
  /\ call[c].pc = "awaitResponse"
  /\ LET s == call[c] IN
     \/ call' = [call EXCEPT ![c] =
            Finish(s, [error |-> "Failed to generate paper analysis", status |-> 0])]
     \/ \E status \in Statuses :
          LET u == [s EXCEPT !.statuses = Append(@, status)] IN
          IF Retries(status, s.attempt)
            THEN \E header \in RetryAfterHeaders :
                   call' = [call EXCEPT ![c] =
                     [u EXCEPT !.pc = "backoff", !.wakeAt = now + RetryDelay(header, s.attempt),
                               !.header = header, !.gotAt = now]]
            ELSE \E body \in (IF status = 200 THEN Bodies ELSE {"empty"}) :
                   call' = [call EXCEPT ![c] =
                     Finish([u EXCEPT !.body = body], Classify(status, body))]
  /\ UNCHANGED <<now, lastCallTime, apiKey, orchVars, pureVars>>

\* The backoff timer fires: the next attempt of the for loop sends again.
Retry(c) ==
  /\ call[c].pc = "backoff"
  /\ now >= call[c].wakeAt
  /\ call' = [call EXCEPT ![c].pc = "awaitResponse", ![c].attempt = @ + 1,
                          ![c].wakeAt = 0, ![c].requests = @ + 1,
                          ![c].header = <<"absent", 0>>, ![c].gotAt = 0]
  /\ UNCHANGED <<now, lastCallTime, apiKey, orchVars, pureVars>>

Tick ==
  /\ now < Horizon
  /\ now' = now + TickMs
  /\ UNCHANGED <<lastCallTime, call, apiKey, orchVars, pureVars>>

----------------------------------------------------------------------------
(* Interval selection: fetchPapersOrchestration, lines 54-64, and           *)
(* calculateIntervalStart                                                  *)

DayMs == 1000 * 60 * 60 * 24
HalfDayMs == DayMs \div 2

\* The longest automatic look-back: the 7 of sevenDaysAgo and Math.min(7, ..).
DefaultDays == 7

\* Bounds: the age of the oldest RunLog enumerated, in half days, and the
\* largest look-back a caller supplies.
MaxAge == 16
MaxDaysBack == 3

\* const now = new Date(); const intervalEnd = new Date(): one instant.
NowMs == (MaxAge + 4) * DayMs

\* The refreshLogs.date values storage may hold: at most two RunLogs, each
\* created a whole number of half days ago.
LogDates == { NowMs - k * HalfDayMs : k \in 0..MaxAge }
LogSets == {{}} \cup { {a, b} : a \in LogDates, b \in LogDates }

\* The argument forcedDaysBack: absent, or what parseInt(daysBackStr, 10) of
\* the refresh endpoint yields (NaN or an integer).
ForcedInputs ==
  {<<"undefined", 0>>, <<"NaN", 0>>} \cup { <<"number", d>> : d \in (0 - 1)..MaxDaysBack }

IdleInterval ==
  [ pc |-> "idle", forcedDaysBack |-> <<"undefined", 0>>, logs |-> {}, now |-> 0,
    intervalStart |-> 0, intervalEnd |-> 0,
    \* history: whether refreshLogs was read
    consulted |-> FALSE ]

\* if (forcedDaysBack): undefined, NaN and 0 are falsy
Truthy(f) == f[1] = "number" /\ f[2] # 0

\* d = new Date(t); d.setDate(d.getDate() - days), in a zone without
\* clock changes
SetDateBack(t, days) == t - days * DayMs

\* select().from(refreshLogs).orderBy(desc(refreshLogs.date)).limit(1)
LastRefreshOldest(logs) == CHOOSE d \in logs : \A e \in logs : d <= e

LastRefresh(logs) == CHOOSE d \in logs : \A e \in logs : e <= d

calculateIntervalStart(t, logs) ==
  IF logs = {} THEN SetDateBack(t, DefaultDays)
  ELSE LET daysSinceLastRefresh == (t - LastRefresh(logs)) \div DayMs
           daysToFetch == Min2(DefaultDays, daysSinceLastRefresh)
       IN SetDateBack(t, daysToFetch)

\* lines 59-61: the forced start, clamped to now
ForcedIntervalStart(t, days) ==
  LET intervalStart == SetDateBack(t, days) IN
  IF intervalStart > t THEN t ELSE intervalStart

\* Lines 54-64 of fetchPapersOrchestration.  The select of
\* calculateIntervalStart may fail: then no interval is chosen.
SelectInterval ==
  /\ interval.pc = "idle"
  /\ LET s == [interval EXCEPT !.intervalEnd = interval.now] IN
     IF Truthy(s.forcedDaysBack)
       THEN interval' = [s EXCEPT !.pc = "done",
                           !.intervalStart = ForcedIntervalStart(s.now, s.forcedDaysBack[2])]
       ELSE \E up \in BOOLEAN :
              interval' =
                IF up THEN [s EXCEPT !.pc = "done", !.consulted = TRUE,
                                     !.intervalStart = calculateIntervalStart(s.now, s.logs)]
                ELSE [s EXCEPT !.pc = "failed", !.consulted = TRUE]
  /\ UNCHANGED <<orchVars, rateVars>>
  /\ Others("interval")

IntervalInputs ==
  { [IdleInterval EXCEPT !.forcedDaysBack = f, !.logs = l, !.now = NowMs] :
      f \in ForcedInputs, l \in LogSets }

----------------------------------------------------------------------------
(* The feed client: fetchPapers (biorxiv.ts)                                *)

\* Bound: the longest collection enumerated.
MaxItems == 2

\* messages[0]: null, or an object with a status of some type and a total
\* (absent, text that is no number, or digits).
Message(kind, status, total) == [kind |-> kind, status |-> status, total |-> total]
MessageStatuses ==
  {<<"undefined", "">>, <<"number", "">>, <<"string", "ok">>, <<"string", "no posts found">>}
Totals == {<<"absent", 0>>, <<"text", 0>>, <<"digits", 0>>, <<"digits", 3>>}
FirstMessages ==
  {Message("null", <<"undefined", "">>, <<"absent", 0>>)}
  \cup { Message("object", s, n) : s \in MessageStatuses, n \in Totals }

\* data.messages and data.collection: absent, not an array, or an array.  A
\* collection element is "good" or "malformed" (null, or authors no string).
MessagesValues ==
  { [kind |-> k, first |-> Message("null", <<"undefined", "">>, <<"absent", 0>>)] :
      k \in {"undefined", "notArray", "empty"} }
  \cup { [kind |-> "array", first |-> m] : m \in FirstMessages }
CollectionValues ==
  { [kind |-> k, items |-> <<>>] : k \in {"undefined", "notArray"} }
  \cup { [kind |-> "array", items |-> s] :
           s \in UNION { [1..n -> {"good", "malformed"}] : n \in 0..MaxItems } }

NoFeedData ==
  [kind |-> "null",
   messages |-> [kind |-> "undefined", first |-> Message("null", <<"undefined", "">>, <<"absent", 0>>)],
   collection |-> [kind |-> "undefined", items |-> <<>>]]
FeedDatas ==
  {NoFeedData}
  \cup { [kind |-> "object", messages |-> m, collection |-> c] :
           m \in MessagesValues, c \in CollectionValues }

\* The HTTP exchange: fetch threw, or a response with a status and a body
\* that response.json() can read (dataOk) or not.
FeedExchanges ==
  { [thrown |-> FALSE, status |-> 200, dataOk |-> TRUE, data |-> d] : d \in FeedDatas }
  \cup { [thrown |-> FALSE, status |-> st, dataOk |-> ok, data |-> NoFeedData] :
           st \in {200, 404, 500}, ok \in BOOLEAN }
  \cup { [thrown |-> TRUE, status |-> 0, dataOk |-> FALSE, data |-> NoFeedData] }

BiorxivError(message, status, rawStatus) ==
  [error |-> message, status |-> status, rawStatus |-> rawStatus, papers |-> 0, total |-> 0]

\* isValidBiorxivResponse(data)
isValidIgnoringCollection(data) ==
  /\ data.kind = "object"
  /\ data.messages.kind = "array"
  /\ data.messages.first.kind = "object"
  /\ data.messages.first.status[1] = "string"

isValidBiorxivResponse(data) ==
  /\ data.kind = "object"
  /\ data.messages.kind = "array"
  /\ data.messages.first.kind = "object"
  /\ data.messages.first.status[1] = "string"
  /\ data.collection.kind = "array"

\* parseInt(messages.total, 10) || 0
ParseTotal(total) == IF total[1] = "digits" THEN total[2] ELSE 0

\* data.collection.map(normalizePaper) throws on what is no array and on a
\* malformed element
NormalizeThrows(collection) ==
  \/ collection.kind # "array"
  \/ \E i \in 1..Len(collection.items) : collection.items[i] = "malformed"

\* fetchPapers from the settling of fetch to its return.  error = "" is
\* {papers, total}; papers is the number of records.
FetchPapersResult(x) ==
  LET failed == BiorxivError("Failed to fetch papers from BioRxiv", 0, "") IN
  IF x.thrown THEN failed
  ELSE IF ~(x.status \in 200..299) THEN BiorxivError("BioRxiv API error", x.status, "")
  ELSE IF ~x.dataOk THEN failed
  ELSE IF ~isValidBiorxivResponse(x.data) THEN BiorxivError("Invalid response from BioRxiv API", 0, "")
  ELSE IF x.data.messages.first.status[2] # "ok"
    THEN BiorxivError("BioRxiv API returned non-ok status", 0, x.data.messages.first.status[2])
  ELSE IF NormalizeThrows(x.data.collection) THEN failed
  ELSE [error |-> "", status |-> 0, rawStatus |-> "", papers |-> Len(x.data.collection.items),
        total |-> ParseTotal(x.data.messages.first.total)]

IdleFeedCall ==
  [ pc |-> "idle", requests |-> 0,
    exchange |-> [thrown |-> TRUE, status |-> 0, dataOk |-> FALSE, data |-> NoFeedData],
    result |-> BiorxivError("none", 0, "") ]

FeedCallInputs == { [IdleFeedCall EXCEPT !.exchange = x] : x \in FeedExchanges }

\* const response = await fetch(url.toString()): the request is sent
FeedSend ==
  /\ feedCall.pc = "idle"
  /\ feedCall' = [feedCall EXCEPT !.pc = "awaitResponse", !.requests = @ + 1]
  /\ UNCHANGED <<orchVars, rateVars>>
  /\ Others("feedCall")

\* the fetch settles and fetchPapers returns
FeedSettle ==
  /\ feedCall.pc = "awaitResponse"
  /\ feedCall' = [feedCall EXCEPT !.pc = "done", !.result = FetchPapersResult(feedCall.exchange)]
  /\ UNCHANGED <<orchVars, rateVars>>
  /\ Others("feedCall")

----------------------------------------------------------------------------
(* The filter tables (lib/filters.ts, lib/trends.ts)                       *)

\* The rows of the papers table the filter queries read, by papers.id.
PaperIds == {1, 2}

\* Texts are sequences of characters.  The empty text also stands for a NULL
\* summary: the search filter is applied only for a non-empty query, and
\* neither NULL nor the empty text is LIKE such a query.
Titles == { <<"A", "b">>, <<"b">> }
Types == { "new", "rev" }
NoOrganism == "null"

\* What an annotation writes to a row: summary, keywords (a JSON array, which
\* may repeat a keyword) and modelOrganism.
Annotations ==
  { [summary |-> <<"a">>, keywords |-> <<"k1", "k2">>, modelOrganism |-> "x"],
    [summary |-> <<>>, keywords |-> <<"k2", "k2">>, modelOrganism |-> NoOrganism],
    [summary |-> <<>>, keywords |-> <<"k1">>, modelOrganism |-> "x"] }

PaperRow(title, type, a) ==
  [title |-> title, type |-> type, summary |-> a.summary, keywords |-> a.keywords,
   modelOrganism |-> a.modelOrganism]

\* A table without rows, and the empty array a query returns.
NoRows == [k \in {} |-> 0]

\* INSERT ... ON CONFLICT(label) DO UPDATE SET count = excluded.count: the
\* rows selected replace or extend the rows of the table; no row is deleted.
Upsert(table, rows) ==
  [k \in DOMAIN table \cup DOMAIN rows |-> IF k \in DOMAIN rows THEN rows[k] ELSE table[k]]

\* SELECT value, count(DISTINCT papers.id) FROM papers, json_each(keywords)
\* GROUP BY value, over the rows `ids` of the papers table
KeywordCounts(rows, ids) ==
  LET labels == UNION { SeqToSet(rows[i].keywords) : i \in ids }
  IN [k \in labels |-> Cardinality({ i \in ids : k \in SeqToSet(rows[i].keywords) })]

\* SELECT modelOrganism, count(*) FROM papers WHERE modelOrganism IS NOT NULL
\* GROUP BY modelOrganism, over the rows `ids` of the papers table
OrganismCounts(rows, ids) ==
  LET labels == { rows[i].modelOrganism : i \in ids } \ {NoOrganism}
  IN [o \in labels |-> Cardinality({ i \in ids : rows[i].modelOrganism = o })]

\* SQLite LIKE '%q%' for a query without wildcard characters: q occurs in the
\* text, ASCII letters compared without case.
Lower(ch) == IF ch = "A" THEN "a" ELSE ch
Like(text, q) ==
  \E i \in 0..(Len(text) - Len(q)) : \A j \in 1..Len(q) : Lower(text[i + j]) = Lower(q[j])

\* The WHERE clause of the live queries: each filter is added when truthy.
Matching(rows, searchQuery, typeFilter) ==
  { i \in DOMAIN rows :
      /\ searchQuery # <<>> => Like(rows[i].title, searchQuery) \/ Like(rows[i].summary, searchQuery)
      /\ typeFilter # "" => rows[i].type = typeFilter }

\* lib/trends.ts getKeywordFilters: the live aggregation; [] when it throws
LiveKeywordFilters(rows, searchQuery, typeFilter, liveOk) ==
  IF liveOk THEN KeywordCounts(rows, Matching(rows, searchQuery, typeFilter)) ELSE NoRows

\* lib/trends.ts getModelOrganismFilters: the live aggregation
LiveOrganismFilters(rows, searchQuery, typeFilter, liveOk) ==
  IF liveOk THEN OrganismCounts(rows, Matching(rows, searchQuery, typeFilter)) ELSE NoRows

\* The table is read whatever the filters.
UnfilteredAlways(searchQuery, typeFilter) == TRUE

\* if (!searchQuery && !typeFilter)
Unfiltered(searchQuery, typeFilter) == searchQuery = <<>> /\ typeFilter = ""

\* lib/filters.ts getKeywordFilters / getModelOrganismFilters: the table is
\* read for an unfiltered request and returned when it has rows; every other
\* case is the live function's.  The value is <<table read, live run, result>>.
GetFilters(table, live, searchQuery, typeFilter, tableOk) ==
  IF Unfiltered(searchQuery, typeFilter)
    THEN IF tableOk /\ DOMAIN table # {} THEN <<TRUE, FALSE, table>> ELSE <<TRUE, TRUE, live>>
    ELSE <<FALSE, TRUE, live>>

NoQuery ==
  [kind |-> "none", searchQuery |-> <<>>, typeFilter |-> "", tableOk |-> TRUE, liveOk |-> TRUE,
   readTable |-> FALSE, ranLive |-> FALSE, result |-> NoRows]

IdleFacets ==
  [ rows |-> [i \in {} |-> 0], keywordFilters |-> NoRows, organismFilters |-> NoRows,
    \* history, not program state
    fresh |-> FALSE, query |-> NoQuery ]

\* paper-fetch.ts: a row enters the papers table with its annotation
InsertPaper ==
  /\ \E i \in PaperIds \ DOMAIN facets.rows, title \in Titles, type \in Types, a \in Annotations :
       facets' = [facets EXCEPT !.rows = [j \in DOMAIN facets.rows \cup {i} |->
                                            IF j = i THEN PaperRow(title, type, a) ELSE facets.rows[j]],
                                !.fresh = FALSE, !.query = NoQuery]
  /\ UNCHANGED <<orchVars, rateVars>>
  /\ Others("facets")

\* migrate-methods.ts batchUpdatePapers: the annotation of a row is rewritten
BatchUpdatePapers ==
  /\ \E i \in DOMAIN facets.rows, a \in Annotations :
       /\ PaperRow(facets.rows[i].title, facets.rows[i].type, a) # facets.rows[i]
       /\ facets' = [facets EXCEPT !.rows[i] = PaperRow(@.title, @.type, a),
                                   !.fresh = FALSE, !.query = NoQuery]
  /\ UNCHANGED <<orchVars, rateVars>>
  /\ Others("facets")

\* lib/filters.ts recomputeFilters: the two upserts, each of which may be
\* rejected; the function returns normally when both succeeded.
RecomputeFilters ==
  /\ \E okK \in BOOLEAN, okO \in BOOLEAN :
       facets' = [facets EXCEPT
         !.keywordFilters = IF okK THEN Upsert(@, KeywordCounts(facets.rows, DOMAIN facets.rows)) ELSE @,
         !.organismFilters = IF okO THEN Upsert(@, OrganismCounts(facets.rows, DOMAIN facets.rows)) ELSE @,
         !.fresh = okK /\ okO, !.query = NoQuery]
  /\ UNCHANGED <<orchVars, rateVars>>
  /\ Others("facets")

SearchQueries == { <<>>, <<"a">> }
TypeFilters == { "", "new" }

\* One call of getKeywordFilters or getModelOrganismFilters.
QueryFilters ==
  /\ facets.query = NoQuery
  /\ \E kind \in {"keyword", "organism"}, searchQuery \in SearchQueries, typeFilter \in TypeFilters,
        tableOk \in BOOLEAN, liveOk \in BOOLEAN :
       LET got == IF kind = "keyword"
                    THEN GetFilters(facets.keywordFilters,
                                    LiveKeywordFilters(facets.rows, searchQuery, typeFilter, liveOk),
                                    searchQuery, typeFilter, tableOk)
                    ELSE GetFilters(facets.organismFilters,
                                    LiveOrganismFilters(facets.rows, searchQuery, typeFilter, liveOk),
                                    searchQuery, typeFilter, tableOk)
       IN facets' = [facets EXCEPT !.query =
            [kind |-> kind, searchQuery |-> searchQuery, typeFilter |-> typeFilter,
             tableOk |-> tableOk, liveOk |-> liveOk,
             readTable |-> got[1], ranLive |-> got[2], result |-> got[3]]]
  /\ UNCHANGED <<orchVars, rateVars>>
  /\ Others("facets")

----------------------------------------------------------------------------
(* The refresh endpoint (pages/admin/api/refresh.ts)                       *)

\* The daysBack field of the form: absent (formData.get gives null), or a text.
DaysBackFields ==
  { [present |-> FALSE, text |-> <<>>] } \cup
  { [present |-> TRUE, text |-> s] :
      s \in { <<>>, <<"7">>, <<"0">>, <<"x">>, <<"1", "x">>, <<"-", "1">>, <<"1", "2">> } }

Digits == { "0", "1", "2", "7" }
DigitValue(ch) == CASE ch = "0" -> 0 [] ch = "1" -> 1 [] ch = "2" -> 2 [] ch = "7" -> 7

\* The value of the digits s[from..to], read in base 10.
RECURSIVE Decimal(_, _, _)
Decimal(s, from, to) ==
  IF to < from THEN 0 ELSE 10 * Decimal(s, from, to - 1) + DigitValue(s[to])

\* parseInt(s, 10): an optional sign, then the longest run of digits; NaN
\* when there is no digit.  The value is <<"NaN", 0>> or <<"number", n>>.
ParseInt10(s) ==
  LET neg == Len(s) > 0 /\ s[1] = "-"
      from == IF neg THEN 2 ELSE 1
      ends == { e \in (from - 1)..Len(s) : \A j \in from..e : s[j] \in Digits }
      to == Max(ends)
  IN IF to < from THEN <<"NaN", 0>>
     ELSE <<"number", IF neg THEN 0 - Decimal(s, from, to) ELSE Decimal(s, from, to)>>

Undefined == <<"undefined", 0>>

\* The field is parsed whether or not it is there.
DaysBackArgAlwaysParsed(field) == ParseInt10(field.text)

\* daysBackStr ? parseInt(daysBackStr, 10) : undefined
DaysBackArg(field) ==
  IF field.present /\ field.text # <<>> THEN ParseInt10(field.text) ELSE Undefined

\* What fetchPapersOrchestration does when called: returns a FetchResult,
\* returns an Error, or throws.
RunOutcomes ==
  { [kind |-> "result", processed |-> n] : n \in 0..1 } \cup
  { [kind |-> "error", processed |-> 0], [kind |-> "throws", processed |-> 0] }

NoResponse == [status |-> 0, success |-> FALSE, error |-> "", result |-> 0, thrown |-> FALSE]

\* The response for what the run did.
Respond(outcome) ==
  IF outcome.kind = "result"
    THEN [status |-> 200, success |-> TRUE, error |-> "", result |-> outcome.processed, thrown |-> FALSE]
    ELSE [status |-> 500, success |-> FALSE, error |-> "Refresh failed", result |-> 0, thrown |-> FALSE]

IdleRefresh ==
  [ pc |-> "idle", formOk |-> TRUE, field |-> [present |-> FALSE, text |-> <<>>],
    outcome |-> [kind |-> "result", processed |-> 0], response |-> NoResponse,
    \* history, not program state
    calls |-> 0, arg |-> Undefined ]

RefreshInputs ==
  { [IdleRefresh EXCEPT !.formOk = ok, !.field = f, !.outcome = o] :
      ok \in BOOLEAN, f \in DaysBackFields, o \in RunOutcomes }

\* await request.formData(), then fetchPapersOrchestration(daysBack) is called;
\* a request whose form cannot be read is answered from the catch
RefreshReadForm ==
  /\ refresh.pc = "idle"
  /\ refresh' = IF refresh.formOk
                  THEN [refresh EXCEPT !.pc = "running", !.calls = @ + 1,
                                       !.arg = DaysBackArg(refresh.field)]
                  ELSE [refresh EXCEPT !.pc = "done", !.response = Respond([kind |-> "throws", processed |-> 0])]
  /\ UNCHANGED <<orchVars, rateVars>>
  /\ Others("refresh")

\* the run settles and the endpoint responds
RefreshRespond ==
  /\ refresh.pc = "running"
  /\ refresh' = [refresh EXCEPT !.pc = "done", !.response = Respond(refresh.outcome)]
  /\ UNCHANGED <<orchVars, rateVars>>
  /\ Others("refresh")

----------------------------------------------------------------------------
(* The insights cache (lib/insights.ts getInsights, clearInsightsCache)    *)

INSIGHTS_CACHE_TTL == 30 * 60 * 1000

\* Bounds: the clock ticks observed and the writes to the stored papers.
MaxCacheTicks == 3
MaxWrites == 2

\* The clock advances in steps of half the TTL, from long after the epoch.
CacheTickMs == INSIGHTS_CACHE_TTL \div 2
CacheEpoch == 2 * INSIGHTS_CACHE_TTL
CacheHorizon == CacheEpoch + MaxCacheTicks * CacheTickMs

\* The calls of getInsights observed, sequential or overlapping.
Readers == {1, 2}

\* insightsCache: null, or the insights computed from a version of the data.
Null == <<"null", 0>>
Data(v) == <<"data", v>>

\* insightsCache && (now - lastInsightsCacheTime < INSIGHTS_CACHE_TTL)
CacheValid(insightsCache, lastInsightsCacheTime, t) ==
  insightsCache # Null /\ t - lastInsightsCacheTime < INSIGHTS_CACHE_TTL

IdleReader ==
  [ pc |-> "idle", now |-> 0, value |-> Null,
    \* history, not program state
    source |-> "none", hadCache |-> FALSE, age |-> 0, afterClear |-> FALSE, readAt |-> 0,
    \* history: the value computed was read before a clearInsightsCache that
    \* has run since; the value returned was read before a clearInsightsCache
    \* that ran before this call started
    preClear |-> FALSE, stale |-> FALSE ]

IdleCache ==
  [ insightsCache |-> Null, lastInsightsCacheTime |-> 0, clock |-> CacheEpoch, storage |-> 0,
    reader |-> [r \in Readers |-> IdleReader],
    \* history, not program state: a clear ran since the last call started;
    \* the cached value was read before a clear that has run since
    cleared |-> FALSE, stale |-> FALSE ]

\* getInsights up to its first await: the cache is returned when valid,
\* otherwise the aggregations are started
GetInsightsStart(r) ==
  /\ cache.reader[r].pc \in {"idle", "done"}
  /\ LET hit == CacheValid(cache.insightsCache, cache.lastInsightsCacheTime, cache.clock)
         history == [IdleReader EXCEPT !.now = cache.clock,
                                       !.hadCache = cache.insightsCache # Null,
                                       !.age = cache.clock - cache.lastInsightsCacheTime,
                                       !.afterClear = cache.cleared]
     IN cache' = [cache EXCEPT
          !.reader[r] = IF hit
                          THEN [history EXCEPT !.pc = "done", !.source = "cache",
                                               !.value = cache.insightsCache,
                                               !.stale = cache.stale]
                          ELSE [history EXCEPT !.pc = "computing", !.source = "storage"],
          !.cleared = FALSE]
  /\ UNCHANGED <<orchVars, rateVars>>
  /\ Others("cache")

\* the aggregations of getTopicMomentum, getAuthorNetwork, getMethodTrends and
\* getKeywordCooccurrence read the stored papers
GetInsightsRead(r) ==
  /\ cache.reader[r].pc = "computing"
  /\ cache' = [cache EXCEPT !.reader[r].pc = "computed", !.reader[r].value = Data(cache.storage),
                            !.reader[r].readAt = cache.clock]
  /\ UNCHANGED <<orchVars, rateVars>>
  /\ Others("cache")

\* getInsights after the await: the result is stored, with the time of the
\* call's start, and returned
GetInsightsStore(r) ==
  /\ cache.reader[r].pc = "computed"
  /\ cache' = [cache EXCEPT !.reader[r].pc = "done",
                            !.insightsCache = cache.reader[r].value,
                            !.lastInsightsCacheTime = cache.reader[r].now,
                            !.stale = cache.reader[r].preClear]
  /\ UNCHANGED <<orchVars, rateVars>>
  /\ Others("cache")

ClearInsightsCache ==
  /\ cache' = [cache EXCEPT !.insightsCache = Null, !.lastInsightsCacheTime = 0, !.cleared = TRUE,
                            !.stale = FALSE,
                            !.reader = [r \in Readers |->
                               IF cache.reader[r].pc = "computed"
                                 THEN [cache.reader[r] EXCEPT !.preClear = TRUE]
                                 ELSE cache.reader[r]]]
  /\ UNCHANGED <<orchVars, rateVars>>
  /\ Others("cache")

\* The stored papers change (a run or a migration writes).
StorageWrite ==
  /\ cache.storage < MaxWrites
  /\ cache' = [cache EXCEPT !.storage = @ + 1]
  /\ UNCHANGED <<orchVars, rateVars>>
  /\ Others("cache")

CacheTick ==
  /\ cache.clock < CacheHorizon
  /\ cache' = [cache EXCEPT !.clock = @ + CacheTickMs]
  /\ UNCHANGED <<orchVars, rateVars>>
  /\ Others("cache")

----------------------------------------------------------------------------
(* Topic momentum (lib/insights.ts getTopicMomentum, both versions)        *)

\* Bound: the keywords that occur in the stored papers.
MaxKeywords == 3
Keywords == 1..MaxKeywords

\* LIMIT 50 of the two aggregate queries and slice(0, 10) of the result,
\* scaled down so that MaxKeywords keywords exceed both.
QueryLimit == 2
TopN == 2

\* The occurrences of one keyword in the trailing 30 days and in the five
\* months before them.
RecentCounts == {0, 1, 2, 5}
PreviousCounts == {0, 1, 10}
KeywordCountsInputs == [Keywords -> [recent : RecentCounts, previous : PreviousCounts]]

\* A score is a fraction <<numerator, denominator>> with a positive denominator.
ScoreGeq(a, b) == a[1] * b[2] >= b[1] * a[2]

\* normalizedPrevious = previous / 5;
\* score = normalizedPrevious === 0 ? recent : (recent - normalizedPrevious) / normalizedPrevious
Score(recent, previous) ==
  IF previous = 0 THEN <<recent, 1>> ELSE <<5 * recent - previous, previous>>

\* The row sets a query ... GROUP BY value ORDER BY count DESC LIMIT n may
\* return for the counts c: n of the keywords that occur, none with a count
\* below that of a keyword left out.
TopRows(c, n) ==
  LET occurring == { k \in Keywords : c[k] > 0 }
  IN { S \in SUBSET occurring :
         /\ Cardinality(S) = Min2(n, Cardinality(occurring))
         /\ \A a \in S, b \in occurring \ S : c[a] >= c[b] }

\* The loop over recentCounts: one entry per keyword with recent >= 2, its
\* previous count taken from previousCounts, 0 when it is not there.
Entries(recentRows, previousRows, counts) ==
  { [keyword |-> k, recentCount |-> counts[k].recent,
     previousCount |-> IF k \in previousRows THEN counts[k].previous ELSE 0,
     momentum |-> Score(counts[k].recent, IF k \in previousRows THEN counts[k].previous ELSE 0)] :
      k \in { k \in recentRows : counts[k].recent >= 2 } }

\* momentum.sort((a, b) => b.momentum - a.momentum).slice(0, 10): the lists
\* the sort may give (entries of equal score in either order), cut.
SortedTop(entries) ==
  LET n == Cardinality(entries)
      sorted == { s \in [1..n -> entries] :
                    /\ \A i, j \in 1..n : i # j => s[i] # s[j]
                    /\ \A i \in 1..(n - 1) : ScoreGeq(s[i].momentum, s[i + 1].momentum) }
  IN { SubSeq(s, 1, Min2(n, TopN)) : s \in sorted }

\* lib/insights.ts, counting in JS over every paper of the six months
TopicMomentumInJs(counts) ==
  LET all == { k \in Keywords : counts[k].recent > 0 }
      prev == { k \in Keywords : counts[k].previous > 0 }
  IN SortedTop(Entries(all, prev, counts))

\* lib/insights.ts, counting with two aggregate queries limited to 50 rows
TopicMomentumInSql(counts) ==
  UNION { SortedTop(Entries(recentRows, previousRows, counts)) :
            recentRows \in TopRows([k \in Keywords |-> counts[k].recent], QueryLimit),
            previousRows \in TopRows([k \in Keywords |-> counts[k].previous], QueryLimit) }

IdleMomentum ==
  [ pc |-> "idle", counts |-> [k \in Keywords |-> [recent |-> 0, previous |-> 0]],
    dbOk |-> TRUE, version |-> "none", result |-> <<>>, thrown |-> FALSE ]

MomentumInputs ==
  { [IdleMomentum EXCEPT !.counts = c, !.dbOk = ok] : c \in KeywordCountsInputs, ok \in BOOLEAN }

\* the select is not in a try: its failure is the caller's
GetTopicMomentumJs ==
  /\ momentum.pc = "idle"
  /\ IF momentum.dbOk
       THEN \E list \in TopicMomentumInJs(momentum.counts) :
              momentum' = [momentum EXCEPT !.pc = "done", !.version = "js", !.result = list]
       ELSE momentum' = [momentum EXCEPT !.pc = "done", !.version = "js", !.thrown = TRUE]
  /\ UNCHANGED <<orchVars, rateVars>>
  /\ Others("momentum")

\* catch (error) { return [] }
GetTopicMomentumSql ==
  /\ momentum.pc = "idle"
  /\ IF momentum.dbOk
       THEN \E list \in TopicMomentumInSql(momentum.counts) :
              momentum' = [momentum EXCEPT !.pc = "done", !.version = "sql", !.result = list]
       ELSE momentum' = [momentum EXCEPT !.pc = "done", !.version = "sql", !.result = <<>>]
  /\ UNCHANGED <<orchVars, rateVars>>
  /\ Others("momentum")

----------------------------------------------------------------------------
(* Rendering (lib/markdown.ts toMarkdown)                                  *)

\* A text is the sequence of its lines (the empty string is one empty line);
\* an optional field is absent or has a value.
Absent == [present |-> FALSE, value |-> <<>>]
Given(v) == [present |-> TRUE, value |-> v]

TitleValues == { <<"T">>, <<"T", "t">> }
AuthorLists == { <<>>, <<"A">>, <<"A", "B">> }
AbstractValues == { Absent, Given(<<"">>), Given(<<"abs">>), Given(<<"abs", "## AI Summary">>) }
SummaryValues == { Absent, Given(<<"">>), Given(<<"sum">>) }
KeywordValues == { Absent, Given(<<>>), Given(<<"k1">>), Given(<<"k1", "k2">>) }

PaperDatas ==
  [ title : TitleValues, authors : AuthorLists, date : {"2026-01-24"}, version : {"1"},
    doi : {"10.1101/1"}, category : {"plant_biology"}, abstract : AbstractValues,
    summary : SummaryValues, keywords : KeywordValues ]

\* items.join(', ')
RECURSIVE JoinComma(_)
JoinComma(items) ==
  IF items = <<>> THEN ""
  ELSE IF Len(items) = 1 THEN items[1]
  ELSE items[1] \o ", " \o JoinComma(Tail(items))

\* The lines of `${prefix}${text}`.
Prefixed(prefix, text) == <<prefix \o text[1]>> \o Tail(text)

\* The field is there, whatever its value.
TextPresent(field) == field.present

\* if (data.abstract), if (data.summary): neither undefined nor the empty string
TextGiven(field) == field.present /\ field.value # <<"">>

\* The lines of lines.join('\n').
toMarkdown(data) ==
  Prefixed("# ", data.title) \o <<"">>
  \o (IF Len(data.authors) > 0 THEN <<"**Authors:** " \o JoinComma(data.authors), "">> ELSE <<>>)
  \o <<"**Date:** " \o data.date, "**Version:** " \o data.version, "**DOI:** " \o data.doi,
       "**Category:** " \o data.category, "">>
  \o (IF TextGiven(data.abstract) THEN <<"## Abstract">> \o data.abstract.value \o <<"">> ELSE <<>>)
  \o (IF TextGiven(data.summary) THEN <<"## AI Summary">> \o data.summary.value \o <<"">> ELSE <<>>)
  \o (IF data.keywords.present /\ Len(data.keywords.value) > 0
        THEN <<"## Keywords", JoinComma(data.keywords.value)>> ELSE <<>>)

IdleMarkdown ==
  [ pc |-> "idle",
    data |-> [title |-> <<"T">>, authors |-> <<>>, date |-> "2026-01-24", version |-> "1",
              doi |-> "10.1101/1", category |-> "plant_biology", abstract |-> Absent,
              summary |-> Absent, keywords |-> Absent],
    output |-> <<>>, again |-> <<>> ]

MarkdownInputs == { [IdleMarkdown EXCEPT !.data = d] : d \in PaperDatas }

\* toMarkdown(data)
Render ==
  /\ markdown.pc = "idle"
  /\ markdown' = [markdown EXCEPT !.pc = "rendered", !.output = toMarkdown(markdown.data)]
  /\ UNCHANGED <<orchVars, rateVars>>
  /\ Others("markdown")

\* toMarkdown(data), a second time
RenderAgain ==
  /\ markdown.pc = "rendered"
  /\ markdown' = [markdown EXCEPT !.pc = "done", !.again = toMarkdown(markdown.data)]
  /\ UNCHANGED <<orchVars, rateVars>>
  /\ Others("markdown")

----------------------------------------------------------------------------
(* Two automatic invocations in a row: the interval of the second           *)
(* (calculateIntervalStart, fetchPapers of biorxiv.ts)                      *)

\* Bounds: how many days before the first run the record is dated, and how
\* many half days after the first run the second one starts.
MaxBack == 3
MaxGap == 4

\* The first run starts at midnight UTC or at noon.
FirstRunTimes == { (MaxBack + DefaultDays + 1) * DayMs + h * HalfDayMs : h \in 0..1 }

\* What became of the record in the first run: flushed; annotation failed
\* (errors++, continue); or the run ended in its catch with the record
\* unflushed.
Fates == {"persisted", "annotationFailed", "aborted"}

IdleResume ==
  [ pc |-> "idle", t1 |-> 0, t2 |-> 0, recordDay |-> 0, fate |-> "none", logs |-> {},
    startDate |-> 0, endDate |-> 0, inFirst |-> FALSE, inNext |-> FALSE ]

\* formatDate(date): the UTC calendar day, here as its day number
formatDate(t) == t \div DayMs

\* GET /details/biorxiv/{startDate}/{endDate}/{cursor}: the records dated
\* from startDate to endDate
InFeedInterval(day, startDate, endDate) == startDate <= day /\ day <= endDate

\* The first automatic run, with no RunLog in storage: it chooses the
\* trailing 7 days, creates its RunLog (dated now) and fetches the record;
\* the record meets one of the three fates.
FirstRun ==
  /\ resume.pc = "idle"
  /\ LET intervalStart == calculateIntervalStart(resume.t1, resume.logs)
         inFirst == InFeedInterval(resume.recordDay, formatDate(intervalStart),
                                   formatDate(resume.t1))
     IN \E f \in Fates :
          resume' = [resume EXCEPT !.pc = "first", !.logs = {resume.t1},
                                   !.inFirst = inFirst,
                                   !.fate = IF inFirst THEN f ELSE "none"]
  /\ UNCHANGED <<orchVars, rateVars>>
  /\ Others("resume")

\* The next automatic run: calculateIntervalStart reads the latest RunLog,
\* whatever its status, and fetchPapers asks for formatDate(intervalStart)
\* to formatDate(intervalEnd).  The select may fail: then nothing is fetched.
NextRun ==
  /\ resume.pc = "first"
  /\ \E up \in BOOLEAN :
       IF up
         THEN LET startDate == formatDate(calculateIntervalStart(resume.t2, resume.logs))
                  endDate == formatDate(resume.t2)
              IN resume' = [resume EXCEPT !.pc = "done", !.startDate = startDate,
                              !.endDate = endDate,
                              !.inNext = InFeedInterval(resume.recordDay, startDate, endDate)]
         ELSE resume' = [resume EXCEPT !.pc = "failed"]
  /\ UNCHANGED <<orchVars, rateVars>>
  /\ Others("resume")

ResumeInputs ==
  { [IdleResume EXCEPT !.t1 = a, !.t2 = a + g * HalfDayMs,
                       !.recordDay = formatDate(a) - k] :
      a \in FirstRunTimes, g \in 0..MaxGap, k \in 0..MaxBack }

----------------------------------------------------------------------------
(* One invocation of fetchPapersOrchestration                              *)

\* The single-function specifications other than the one named are idle.
IdleExcept(name) ==
  /\ IF name = "interval" THEN TRUE ELSE interval = IdleInterval
  /\ IF name = "analysis" THEN TRUE ELSE analysis = IdleAnalysis
  /\ IF name = "feedCall" THEN TRUE ELSE feedCall = IdleFeedCall
  /\ IF name = "facets" THEN TRUE ELSE facets = IdleFacets
  /\ IF name = "refresh" THEN TRUE ELSE refresh = IdleRefresh
  /\ IF name = "cache" THEN TRUE ELSE cache = IdleCache
  /\ IF name = "momentum" THEN TRUE ELSE momentum = IdleMomentum
  /\ IF name = "markdown" THEN TRUE ELSE markdown = IdleMarkdown
  /\ IF name = "resume" THEN TRUE ELSE resume = IdleResume

\* No request to the reset-status endpoint yet.
NoSweep == [status |-> 0, body |-> "none"]

InitRun ==
  [ pc |-> "idle", cursor |-> 0, fetched |-> 0, processed |-> 0, errors |-> 0,
    papersBuffer |-> <<>>, page |-> <<>>, newPapers |-> <<>>, idx |-> 1,
    raceCheckMap |-> {}, result |-> "none", message |-> "none",
    \* history, not program state
    feedCalls |-> 0, feedFailed |-> FALSE, annCalls |-> 0, annErrors |-> 0,
    conflicts |-> {}, otherFailure |-> FALSE, statusWriteFailed |-> FALSE,
    predecessors |-> {}, recomputed |-> FALSE, recomputeFailed |-> FALSE ]

Init ==
  /\ papers = {}
  /\ refreshLogs = [r \in RunIds |-> [status |-> "none", papersFetched |-> 0, papersProcessed |-> 0]]
  /\ feed \in Feeds
  /\ run = [r \in RunIds |-> InitRun]
  /\ sweep = NoSweep
  /\ apiKey = TRUE
  /\ now = Epoch
  /\ lastCallTime = 0
  /\ call = [c \in CallIds |-> InitCall]
  /\ IdleExcept("none")

\* catch (error) at paper-fetch.ts:208: the error becomes the return value.
\* The function returns: its loop variables go out of scope; the counters and
\* the buffer are kept as they were at the return.
Return(s, result, msg) ==
  [s EXCEPT !.pc = "done", !.result = result, !.message = msg,
            !.cursor = 0, !.page = <<>>, !.newPapers = <<>>, !.idx = 1,
            !.raceCheckMap = {}]

OuterCatchRethrow(s, msg) == Return(s, "thrown", msg)

OuterCatch(s, msg) == Return(s, "Error", msg)

\* catch (error) at paper-fetch.ts:199: finalize the RunLog as error, then rethrow.
InnerCatch(s, msg) ==
  [s EXCEPT !.pc = "finalizeError", !.message = msg,
            !.otherFailure = @ \/ msg # "feed"]

\* The failed flush also empties the buffer.
PerPaperCatchDropBuffer(s) ==
  [s EXCEPT !.pc = "loop", !.errors = @ + 1, !.idx = @ + 1, !.otherFailure = TRUE,
            !.papersBuffer = <<>>]

\* catch (error) at paper-fetch.ts:166: count the record as an error, go on.
PerPaperCatch(s) ==
  [s EXCEPT !.pc = "loop", !.errors = @ + 1, !.idx = @ + 1, !.otherFailure = TRUE]

\* Entry: interval selection (calculateIntervalStart reads refreshLogs unless
\* a look-back is forced); the select may fail.  Invocations are numbered in
\* the order in which they are called.
Start(r) ==
  /\ run[r].pc = "idle"
  /\ \A q \in RunIds : q < r => run[q].pc # "idle"
  /\ \E forced \in BOOLEAN, up \in BOOLEAN :
       LET s == [run[r] EXCEPT !.predecessors =
                    { q \in RunIds : run[q].result = "FetchResult" }]
       IN run' = [run EXCEPT ![r] =
                    IF forced \/ up THEN [s EXCEPT !.pc = "createLog"]
                    ELSE OuterCatch([s EXCEPT !.otherFailure = TRUE], "storage")]
  /\ UNCHANGED <<papers, refreshLogs, feed, sweep, rateVars, pureVars>>

\* createRefreshLog: INSERT ... VALUES (.., 0, 0, 'in_progress') RETURNING id
CreateRefreshLog(r) ==
  /\ run[r].pc = "createLog"
  /\ \E up \in BOOLEAN :
       IF up
         THEN /\ refreshLogs' = [refreshLogs EXCEPT ![r] =
                   [status |-> "in_progress", papersFetched |-> 0, papersProcessed |-> 0]]
              /\ run' = [run EXCEPT ![r].pc = "fetch"]
         ELSE /\ run' = [run EXCEPT ![r] =
                   OuterCatch([run[r] EXCEPT !.otherFailure = TRUE], "storage")]
              /\ UNCHANGED refreshLogs
  /\ UNCHANGED <<papers, feed, sweep, rateVars, pureVars>>

\* if (isBiorxivError(result)) throw new Error(result.error)
OnFeedErrorSkip(s) == [s EXCEPT !.pc = "dedup", !.page = <<>>]

OnFeedError(s) == InnerCatch(s, "feed")

\* await fetchPapers({intervalStart, intervalEnd, cursor})
FetchPage(r) ==
  /\ run[r].pc = "fetch"
  /\ \E ok \in BOOLEAN :
       LET s == [run[r] EXCEPT !.feedCalls = @ + 1, !.feedFailed = ~ok] IN
       run' = [run EXCEPT ![r] =
                 IF ok THEN [s EXCEPT !.pc = "dedup", !.page = FeedPage(s.cursor)]
                 ELSE OnFeedError(s)]
  /\ UNCHANGED <<papers, refreshLogs, feed, sweep, rateVars, pureVars>>

\* getExistingDoisFromBatch, the filter to newPapers and fetched += page length
DedupCheck(r) ==
  /\ run[r].pc = "dedup"
  /\ \E up \in BOOLEAN :
       LET s == run[r]
           existing == SelectDois(papers, SeqToSet(s.page))
           new == FilterNew(s.page, existing)
       IN run' = [run EXCEPT ![r] =
            IF s.page # <<>> /\ ~up THEN InnerCatch(s, "storage")
            ELSE [s EXCEPT !.newPapers = new,
                           !.fetched = @ + Len(s.page),
                           !.idx = 1,
                           !.raceCheckMap = {},
                           !.pc = IF new = <<>> THEN "loop" ELSE "raceCheck"]]
  /\ UNCHANGED <<papers, refreshLogs, feed, sweep, rateVars, pureVars>>

\* the batched race recheck: select doi, summary where doi in newPaperDois
RaceCheck(r) ==
  /\ run[r].pc = "raceCheck"
  /\ \E up \in BOOLEAN :
       LET s == run[r] IN
       run' = [run EXCEPT ![r] =
            IF up THEN [s EXCEPT !.raceCheckMap = SelectDois(papers, SeqToSet(s.newPapers)),
                                 !.pc = "loop"]
            ELSE InnerCatch(s, "storage")]
  /\ UNCHANGED <<papers, refreshLogs, feed, sweep, rateVars, pureVars>>

\* if (result.papers.length < 100 || fetched >= result.total) break
LastPageShortOnly(s) == Len(s.page) < PAGE_SIZE

LastPage(s) == Len(s.page) < PAGE_SIZE \/ s.fetched >= Len(feed)

\* Head of the for loop over newPapers, and the end of the page.
LoopHead(r) ==
  /\ run[r].pc = "loop"
  /\ LET s == run[r] IN
     run' = [run EXCEPT ![r] =
       IF s.idx > Len(s.newPapers)
         THEN IF LastPage(s)
                THEN [s EXCEPT !.pc = IF s.papersBuffer # <<>> THEN "finalInsert" ELSE "complete"]
                ELSE [s EXCEPT !.cursor = @ + PAGE_SIZE, !.pc = "fetch"]
       ELSE IF s.newPapers[s.idx] \in s.raceCheckMap
         THEN [s EXCEPT !.idx = @ + 1]
       ELSE [s EXCEPT !.pc = "annotating", !.annCalls = @ + 1]]
  /\ UNCHANGED <<papers, refreshLogs, feed, sweep, rateVars, pureVars>>

\* isOpenRouterError(summaryResult): errors++; continue
OnAnnotationErrorAbort(s) == InnerCatch(s, "annotation")

OnAnnotationError(s) == [s EXCEPT !.errors = @ + 1, !.idx = @ + 1, !.pc = "loop"]

\* await generateSummaryAndKeywords(paper.abstract) returns; on success the
\* record is rendered and pushed, processed++ and the threshold is tested.
Annotated(r) ==
  /\ run[r].pc = "annotating"
  /\ \E ok \in BOOLEAN :
       LET s == run[r]
           buf == Append(s.papersBuffer, s.newPapers[s.idx])
       IN run' = [run EXCEPT ![r] =
            IF ~ok THEN OnAnnotationError([s EXCEPT !.annErrors = @ + 1])
            ELSE IF Len(buf) >= BATCH_SIZE
              THEN [s EXCEPT !.papersBuffer = buf, !.processed = @ + 1, !.pc = "flushInsert"]
              ELSE [s EXCEPT !.papersBuffer = buf, !.processed = @ + 1,
                             !.idx = @ + 1, !.pc = "loop"]]
  /\ UNCHANGED <<papers, refreshLogs, feed, sweep, rateVars, pureVars>>

\* insertPapersBatch, first await: db.batch of the inserts.  inLoop selects
\* the catch that receives a failure (per-paper catch or the run's catch).
InsertBatchThenUpdateAnyway(r, inLoop) ==
  /\ run[r].pc = IF inLoop THEN "flushInsert" ELSE "finalInsert"
  /\ \E up \in BOOLEAN :
       papers' = DbBatchInsert(papers, Rows(run[r].papersBuffer, r), up)[2]
  /\ run' = [run EXCEPT ![r].pc = IF inLoop THEN "flushUpdate" ELSE "finalUpdate"]
  /\ UNCHANGED <<refreshLogs, feed, sweep, rateVars, pureVars>>

InsertBatch(r, inLoop) ==
  /\ run[r].pc = IF inLoop THEN "flushInsert" ELSE "finalInsert"
  /\ \E up \in BOOLEAN :
       LET s == run[r]
           res == DbBatchInsert(papers, Rows(s.papersBuffer, r), up)
           t == [s EXCEPT !.conflicts =
                   IF up THEN @ \cup (SeqToSet(s.papersBuffer) \cap DoisOf(papers)) ELSE @]
       IN /\ papers' = res[2]
          /\ run' = [run EXCEPT ![r] =
               IF res[1] THEN [s EXCEPT !.pc = IF inLoop THEN "flushUpdate" ELSE "finalUpdate"]
               ELSE IF inLoop THEN PerPaperCatch(t)
               ELSE InnerCatch(t, "storage")]
  /\ UNCHANGED <<refreshLogs, feed, sweep, rateVars, pureVars>>

\* db.update(refreshLogs).set({papersFetched, papersProcessed}) of a flush
FlushCountersBuffered(s) == Len(s.papersBuffer)

FlushCounters(s) == s.processed

\* insertPapersBatch, second await: the RunLog progress update; on return the
\* caller clears the buffer.
UpdateProgress(r, inLoop) ==
  /\ run[r].pc = IF inLoop THEN "flushUpdate" ELSE "finalUpdate"
  /\ \E up \in BOOLEAN :
       LET s == run[r] IN
       IF up
         THEN /\ refreshLogs' = [refreshLogs EXCEPT ![r].papersFetched = s.fetched,
                                                    ![r].papersProcessed = FlushCounters(s)]
              /\ run' = [run EXCEPT ![r] =
                   IF inLoop THEN [s EXCEPT !.papersBuffer = <<>>, !.idx = @ + 1, !.pc = "loop"]
                   ELSE [s EXCEPT !.papersBuffer = <<>>, !.pc = "complete"]]
         ELSE /\ UNCHANGED refreshLogs
              /\ run' = [run EXCEPT ![r] =
                   IF inLoop THEN PerPaperCatch(s) ELSE InnerCatch(s, "storage")]
  /\ UNCHANGED <<papers, feed, sweep, rateVars, pureVars>>

FlushInsert(r) == InsertBatch(r, TRUE)
FlushUpdate(r) == UpdateProgress(r, TRUE)
FinalInsert(r) == InsertBatch(r, FALSE)
FinalUpdate(r) == UpdateProgress(r, FALSE)

\* updateRefreshLogStatus: update ... set {status, papersFetched, papersProcessed}
\* where id = refreshLogId
UpdateRefreshLogStatusCountersOnly(logs, r, status, s) ==
  [logs EXCEPT ![r].papersFetched = s.fetched, ![r].papersProcessed = s.processed]

UpdateRefreshLogStatus(logs, r, status, s) ==
  [logs EXCEPT ![r] = [status |-> status, papersFetched |-> s.fetched,
                       papersProcessed |-> s.processed]]

\* if (processed > 0): whether recomputeFilters is called
ShouldRecomputeAlways(s) == TRUE

ShouldRecompute(s) == s.processed > 0

\* await updateRefreshLogStatus(refreshLogId, 'completed', fetched, processed)
Complete(r) ==
  /\ run[r].pc = "complete"
  /\ \E up \in BOOLEAN :
       LET s == run[r] IN
       IF up
         THEN /\ refreshLogs' = UpdateRefreshLogStatus(refreshLogs, r, "completed", s)
              /\ run' = [run EXCEPT ![r] =
                   IF ShouldRecompute(s) THEN [s EXCEPT !.pc = "recompute"]
                   ELSE Return(s, "FetchResult", "none")]
         ELSE /\ UNCHANGED refreshLogs
              /\ run' = [run EXCEPT ![r] = InnerCatch(s, "storage")]
  /\ UNCHANGED <<papers, feed, sweep, rateVars, pureVars>>

\* catch (error) at paper-fetch.ts:193: log, then return the result
OnRecomputeError(s) == Return(s, "FetchResult", "none")

\* try { await recomputeFilters() } catch { log }; return {fetched, ...}
Recompute(r) ==
  /\ run[r].pc = "recompute"
  /\ \E ok \in BOOLEAN :
       LET s == [run[r] EXCEPT !.recomputed = TRUE, !.recomputeFailed = ~ok] IN
       run' = [run EXCEPT ![r] =
                 IF ok THEN Return(s, "FetchResult", "none") ELSE OnRecomputeError(s)]
  /\ UNCHANGED <<papers, refreshLogs, feed, sweep, rateVars, pureVars>>

\* catch (statusError) at paper-fetch.ts:203: log; then throw error, the
\* error that ended the run
OnStatusWriteErrorReplace(s) == OuterCatch(s, "storage")

OnStatusWriteError(s) == OuterCatch(s, s.message)

\* try { await updateRefreshLogStatus(.., 'error', ..) } catch { log }; throw error
FinalizeError(r) ==
  /\ run[r].pc = "finalizeError"
  /\ \E up \in BOOLEAN :
       LET s == run[r] IN
       /\ refreshLogs' = IF up THEN UpdateRefreshLogStatus(refreshLogs, r, "error", s)
                         ELSE refreshLogs
       /\ run' = [run EXCEPT ![r] =
            LET u == [s EXCEPT !.statusWriteFailed = ~up] IN
            IF up THEN OuterCatch(u, s.message) ELSE OnStatusWriteError(u)]
  /\ UNCHANGED <<papers, feed, sweep, rateVars, pureVars>>

\* The sweep reaches every row whatever its status.
ResetStatusAll ==
  /\ \E up \in BOOLEAN :
       IF up
         THEN /\ refreshLogs' = [r \in RunIds |-> [refreshLogs[r] EXCEPT !.status = "interrupted"]]
              /\ sweep' = [status |-> 200, body |-> "success"]
         ELSE /\ UNCHANGED refreshLogs
              /\ sweep' = [status |-> 500, body |-> "Failed to reset status"]
  /\ UNCHANGED <<papers, feed, run, rateVars, pureVars>>

\* POST /admin/api/reset-status: update refreshLogs set status = 'interrupted'
\* where status = 'in_progress'; 200 {success: true}, or 500 {error: 'Failed
\* to reset status'} when the update throws
ResetStatus ==
  /\ \E up \in BOOLEAN :
       IF up
         THEN /\ refreshLogs' = [r \in RunIds |->
                   IF refreshLogs[r].status = "in_progress"
                     THEN [refreshLogs[r] EXCEPT !.status = "interrupted"]
                     ELSE refreshLogs[r]]
              /\ sweep' = [status |-> 200, body |-> "success"]
         ELSE /\ UNCHANGED refreshLogs
              /\ sweep' = [status |-> 500, body |-> "Failed to reset status"]
  /\ UNCHANGED <<papers, feed, run, rateVars, pureVars>>

\* A flush of another invocation, seen from this one: a record with a summary
\* appears in the papers table (the unique constraint applies to it as well).
ConcurrentInsert ==
  /\ \E d \in SeqToSet(feed) :
       LET res == DbBatchInsert(papers, <<Row(d, 0)>>, TRUE) IN
       /\ res[1]
       /\ papers' = res[2]
  /\ UNCHANGED <<refreshLogs, feed, run, sweep, rateVars, pureVars>>

Next ==
  \/ \E r \in RunIds : Start(r)
  \/ \E r \in RunIds : CreateRefreshLog(r)
  \/ \E r \in RunIds : FetchPage(r)
  \/ \E r \in RunIds : DedupCheck(r)
  \/ \E r \in RunIds : RaceCheck(r)
  \/ \E r \in RunIds : LoopHead(r)
  \/ \E r \in RunIds : Annotated(r)
  \/ \E r \in RunIds : FlushInsert(r)
  \/ \E r \in RunIds : FlushUpdate(r)
  \/ \E r \in RunIds : FinalInsert(r)
  \/ \E r \in RunIds : FinalUpdate(r)
  \/ \E r \in RunIds : Complete(r)
  \/ \E r \in RunIds : Recompute(r)
  \/ \E r \in RunIds : FinalizeError(r)

Spec == Init /\ [][Next]_vars

NextAdmin ==
  \/ Start(1)
  \/ CreateRefreshLog(1)
  \/ FetchPage(1)
  \/ DedupCheck(1)
  \/ RaceCheck(1)
  \/ LoopHead(1)
  \/ Annotated(1)
  \/ FlushInsert(1)
  \/ FlushUpdate(1)
  \/ FinalInsert(1)
  \/ FinalUpdate(1)
  \/ Complete(1)
  \/ Recompute(1)
  \/ FinalizeError(1)
  \/ ResetStatus
  \/ ConcurrentInsert

SpecAdmin == Init /\ [][NextAdmin]_vars

\* One invocation alone, every awaited operation of which eventually settles
\* (with a result or with a failure).
NextPaging ==
  \/ Start(1)
  \/ CreateRefreshLog(1)
  \/ FetchPage(1)
  \/ DedupCheck(1)
  \/ RaceCheck(1)
  \/ LoopHead(1)
  \/ Annotated(1)
  \/ FlushInsert(1)
  \/ FlushUpdate(1)
  \/ FinalInsert(1)
  \/ FinalUpdate(1)
  \/ Complete(1)
  \/ Recompute(1)
  \/ FinalizeError(1)

SpecPaging == Init /\ [][NextPaging]_vars /\ WF_vars(NextPaging)

InitRate ==
  /\ papers = {}
  /\ refreshLogs = [r \in RunIds |-> [status |-> "none", papersFetched |-> 0, papersProcessed |-> 0]]
  /\ feed = <<>>
  /\ run = [r \in RunIds |-> InitRun]
  /\ sweep = NoSweep
  /\ apiKey \in BOOLEAN
  /\ InitClient
  /\ IdleExcept("none")

NextRate ==
  \/ \E c \in CallIds : Begin(c)
  \/ \E c \in CallIds : WakeRateLimit(c)
  \/ \E c \in CallIds : Response(c)
  \/ \E c \in CallIds : Retry(c)
  \/ Tick

SpecRate == InitRate /\ [][NextRate]_vars

\* The state outside the function evaluated.
NoRuns ==
  /\ papers = {}
  /\ refreshLogs = [r \in RunIds |-> [status |-> "none", papersFetched |-> 0, papersProcessed |-> 0]]
  /\ feed = <<>>
  /\ run = [r \in RunIds |-> InitRun]
  /\ sweep = NoSweep
  /\ apiKey = TRUE
  /\ now = Epoch
  /\ lastCallTime = 0
  /\ call = [c \in CallIds |-> InitCall]

\* One interval selection for every input.
InitInterval ==
  /\ NoRuns
  /\ interval \in IntervalInputs
  /\ IdleExcept("interval")

SpecInterval == InitInterval /\ [][SelectInterval]_vars

\* One response evaluation for every response.
InitAnalysis ==
  /\ NoRuns
  /\ analysis \in AnalysisInputs
  /\ IdleExcept("analysis")

SpecAnalysis == InitAnalysis /\ [][Analyse]_vars

\* One call of fetchPapers for every HTTP exchange.
InitFeed ==
  /\ NoRuns
  /\ feedCall \in FeedCallInputs
  /\ IdleExcept("feedCall")

NextFeed == FeedSend \/ FeedSettle

SpecFeed == InitFeed /\ [][NextFeed]_vars

\* The filter tables under inserts, annotation rewrites, recomputations and
\* filter queries, from an empty database.
InitFacets ==
  /\ NoRuns
  /\ facets = IdleFacets
  /\ IdleExcept("facets")

NextFacets == InsertPaper \/ BatchUpdatePapers \/ RecomputeFilters \/ QueryFilters

SpecFacets == InitFacets /\ [][NextFacets]_vars

\* One request to the refresh endpoint for every form and every outcome of
\* the run.
InitRefresh ==
  /\ NoRuns
  /\ refresh \in RefreshInputs
  /\ IdleExcept("refresh")

NextRefresh == RefreshReadForm \/ RefreshRespond

SpecRefresh == InitRefresh /\ [][NextRefresh]_vars

\* Calls of getInsights and clearInsightsCache over a clock and changing data.
InitCache ==
  /\ NoRuns
  /\ cache = IdleCache
  /\ IdleExcept("cache")

NextCache ==
  \/ \E r \in Readers : GetInsightsStart(r)
  \/ \E r \in Readers : GetInsightsRead(r)
  \/ \E r \in Readers : GetInsightsStore(r)
  \/ ClearInsightsCache
  \/ StorageWrite
  \/ CacheTick

SpecCache == InitCache /\ [][NextCache]_vars

\* One call of getTopicMomentum, in either version, for every table of counts.
InitMomentum ==
  /\ NoRuns
  /\ momentum \in MomentumInputs
  /\ IdleExcept("momentum")

NextMomentum == GetTopicMomentumJs \/ GetTopicMomentumSql

SpecMomentum == InitMomentum /\ [][NextMomentum]_vars

\* Every paper rendered twice.
InitMarkdown ==
  /\ NoRuns
  /\ markdown \in MarkdownInputs
  /\ IdleExcept("markdown")

NextMarkdown == Render \/ RenderAgain

SpecMarkdown == InitMarkdown /\ [][NextMarkdown]_vars

\* A writer other than this invocation leaves a row in the papers table:
\* a fully processed record, or a partially processed one without a summary.
ConcurrentInsertAny ==
  /\ \E d \in SeqToSet(feed), summary \in BOOLEAN :
       LET res == DbBatchInsert(papers, <<[doi |-> d, summary |-> summary, by |-> 0]>>, TRUE) IN
       /\ res[1]
       /\ papers' = res[2]
  /\ UNCHANGED <<refreshLogs, feed, run, sweep, rateVars, pureVars>>

\* One invocation over a papers table that other writers fill with rows
\* with and without a summary.
NextExisting == NextPaging \/ ConcurrentInsertAny

SpecExisting == Init /\ [][NextExisting]_vars

\* Two automatic runs in a row for every input.
InitResume ==
  /\ NoRuns
  /\ resume \in ResumeInputs
  /\ IdleExcept("resume")

NextResume == FirstRun \/ NextRun

SpecResume == InitResume /\ [][NextResume]_vars

----------------------------------------------------------------------------
(* Properties                                                              *)

Done(r) == run[r].pc = "done"
LogCreated(r) == refreshLogs[r].status # "none"

\* C1 (Spec): of two overlapping invocations that receive the same DOI from
\* the feed at most one inserts a Record with it: the papers table never
\* holds two rows with one DOI, and a row once inserted is never removed or
\* replaced (the later insert is rejected or skipped, not an overwrite).
C1_OneRowPerDoi ==
  /\ [](\A x, y \in papers : x.doi = y.doi => x = y)
  /\ [][papers \subseteq papers']_vars

\* C1 witness: one run has inserted a DOI and the other run's batch holding
\* the same DOI was rejected by the storage.
C1_Witness ==
  \E r, q \in RunIds, d \in Dois :
    /\ r # q
    /\ Row(d, r) \in papers
    /\ d \in run[q].conflicts

Sent(c) == call[c].requests >= 1

\* C3 as stated (SpecRate): between the first requests of any two calls of
\* generateSummaryAndKeywords at least DELAY_MS elapse, also when the calls
\* are in flight concurrently.
C3_MinimumSpacing ==
  \A a, b \in CallIds :
    (a # b /\ Sent(a) /\ Sent(b)) =>
      \/ call[a].firstSend - call[b].firstSend >= DELAY_MS
      \/ call[b].firstSend - call[a].firstSend >= DELAY_MS

\* C4 (SpecRate): a call started after another call has returned sends its
\* request no earlier than DELAY_MS after the rate-limit timestamp the
\* earlier call recorded.
C4_SequentialSpacing ==
  \A b \in CallIds : \A a \in call[b].pred :
    Sent(b) => call[b].firstSend >= call[a].stamp + DELAY_MS

\* C4 witness: the second of two sequential calls slept and sent exactly
\* DELAY_MS after the first call's timestamp.
C4_Witness ==
  \E b \in CallIds : \E a \in call[b].pred :
    /\ Sent(a) /\ Sent(b)
    /\ call[b].firstSend = call[a].stamp + DELAY_MS

ThrownError == "Failed to generate paper analysis"

\* C5 (SpecRate): a call sends at most maxRetries requests; every response
\* before the last one received was a 429; a non-429 response, or the third
\* 429, ends the attempts and is the response evaluated; 429 then 200 with a
\* valid body is a success; three 429s give, after exactly 3 requests, an
\* error with status 429.
C5_RetryOn429 ==
  \A c \in CallIds :
    LET s == call[c]
        n == Len(s.statuses)
    IN /\ s.requests <= maxRetries
       /\ \A i \in 1..(n - 1) : s.statuses[i] = 429
       /\ s.pc = "backoff" => (n = s.requests /\ s.statuses[n] = 429)
       /\ s.pc = "awaitResponse" => n = s.requests - 1
       /\ (s.done /\ n > 0 /\ s.error # ThrownError) =>
             /\ n = s.requests
             /\ (s.statuses[n] = 429 => n = maxRetries)
             /\ [error |-> s.error, status |-> s.status] = Classify(s.statuses[n], s.body)
       /\ (s.done /\ s.statuses = <<429, 200>> /\ s.body = "good" /\ s.error # ThrownError) =>
             s.error = ""
       /\ s.statuses = <<429, 429, 429>> =>
             (s.done /\ s.requests = 3 /\ s.error = "OpenRouter API error" /\ s.status = 429)

\* C5 witness: one call got 429 three times, the other 429 and then 200.
C5_Witness ==
  \E c, d \in CallIds :
    /\ call[c].statuses = <<429, 429, 429>> /\ call[c].done
    /\ call[d].statuses = <<429, 200>> /\ call[d].done /\ call[d].error = ""

\* After a feed error the run requests no page and makes no annotation call.
NoCallAfterFeedError ==
  \A r \in RunIds :
    run[r].feedFailed =>
      /\ run'[r].feedCalls = run[r].feedCalls
      /\ run'[r].annCalls = run[r].annCalls
      /\ run'[r].feedFailed

\* C6 as stated (SpecAdmin): after a feed error the run returns an Error
\* with the feed error's message and its RunLog has status error.
C6_FeedErrorSetsStatusError ==
  \A r \in RunIds :
    (run[r].feedFailed /\ Done(r)) =>
      /\ run[r].result = "Error" /\ run[r].message = "feed"
      /\ refreshLogs[r].status = "error"

\* C6 amended (SpecAdmin): a feed error aborts the run at once: no further
\* page is requested, no further annotation call is made, the run goes
\* straight to the error finalization and returns an Error with the feed
\* error's message; its RunLog has status error unless the write of that
\* status itself failed.
C6_FeedErrorAborts ==
  /\ [](\A r \in RunIds :
          run[r].feedFailed =>
            /\ run[r].pc \in {"finalizeError", "done"}
            /\ run[r].message = "feed"
            /\ Done(r) => /\ run[r].result = "Error"
                          /\ ~run[r].statusWriteFailed => refreshLogs[r].status = "error")
  /\ [][NoCallAfterFeedError]_vars

\* C6 witness: the second page request failed after records of the first
\* page were annotated; the run has returned with its RunLog in error.
C6_Witness ==
  \E r \in RunIds :
    /\ run[r].feedFailed /\ Done(r)
    /\ run[r].feedCalls = 2 /\ run[r].annCalls > 0
    /\ refreshLogs[r].status = "error"

\* C7 (SpecAdmin): fetchPapersOrchestration never throws: it has returned
\* exactly when it is done, a failure that ended it is returned as an Error
\* and a run that ended without one returns a FetchResult.
C7_NeverThrows ==
  \A r \in RunIds :
    /\ run[r].result # "thrown"
    /\ Done(r) <=> run[r].result \in {"Error", "FetchResult"}
    /\ run[r].result = "Error" <=> (Done(r) /\ run[r].message # "none")
    /\ run[r].result = "FetchResult" => run[r].message = "none"

\* C7 witness: a run that had processed a record failed in storage, failed
\* again to write the error status, and has returned an Error.
C7_Witness ==
  \E r \in RunIds :
    /\ run[r].result = "Error"
    /\ run[r].statusWriteFailed
    /\ run[r].message = "storage"
    /\ run[r].processed > 0

\* The step in which an annotation call returns an AnnotationError.
AnnotationErrorStep(r) == run'[r].annErrors = run[r].annErrors + 1

\* C8 (SpecAdmin): an AnnotationError increments errors by one, leaves
\* processed, the buffer and the papers table unchanged and moves on to the
\* next record; a run whose only failures are AnnotationErrors returns a
\* result and its RunLog has status completed.
C8_AnnotationErrorIsolated ==
  /\ [][\A r \in RunIds :
          AnnotationErrorStep(r) =>
            /\ run'[r].errors = run[r].errors + 1
            /\ run'[r].processed = run[r].processed
            /\ run'[r].papersBuffer = run[r].papersBuffer
            /\ papers' = papers
            /\ run'[r].pc = "loop" /\ run'[r].idx = run[r].idx + 1]_vars
  /\ [](\A r \in RunIds :
          (Done(r) /\ ~run[r].otherFailure /\ ~run[r].feedFailed) =>
            /\ run[r].result = "FetchResult"
            /\ run[r].errors = run[r].annErrors
            /\ refreshLogs[r].status = "completed")

\* C8 witness: a run with an AnnotationError and a persisted record has
\* completed.
C8_Witness ==
  \E r \in RunIds :
    /\ Done(r) /\ run[r].annErrors > 0 /\ ~run[r].otherFailure
    /\ run[r].processed > 0
    /\ refreshLogs[r].status = "completed"

\* C9 as stated (SpecAdmin): when a run that created its RunLog has
\* returned, the RunLog's status is completed or error.
C9_StatusFinalized ==
  \A r \in RunIds :
    (Done(r) /\ LogCreated(r)) => refreshLogs[r].status \in {"completed", "error"}

\* C9 amended (SpecAdmin): the RunLog exists, with zero counters, before the
\* first feed request; when the run has returned, the RunLog's status is
\* completed (the run returned a result) or error (it returned an Error),
\* unless the write of the error status failed: then the RunLog is left
\* unfinalized (in_progress, or interrupted by a sweep).
C9_StatusFinalizedUnlessWriteFails ==
  \A r \in RunIds :
    /\ run[r].pc = "fetch" => LogCreated(r)
    /\ (run[r].pc = "fetch" /\ run[r].feedCalls = 0) =>
          /\ refreshLogs[r].status \in {"in_progress", "interrupted"}
          /\ refreshLogs[r].papersFetched = 0 /\ refreshLogs[r].papersProcessed = 0
    /\ (Done(r) /\ LogCreated(r)) =>
          IF run[r].statusWriteFailed
            THEN refreshLogs[r].status \in {"in_progress", "interrupted"}
            ELSE /\ refreshLogs[r].status \in {"completed", "error"}
                 /\ refreshLogs[r].status = "completed" <=> run[r].result = "FetchResult"

\* C9 witness: a run that processed records has returned an Error with its
\* RunLog finalized as error.
C9_Witness ==
  \E r \in RunIds :
    /\ Done(r) /\ run[r].processed > 0
    /\ ~run[r].statusWriteFailed
    /\ refreshLogs[r].status = "error"

\* C10 (SpecAdmin): no write to a RunLog lowers papersFetched or
\* papersProcessed.
C10_CountersNeverDecrease ==
  [][\A r \in RunIds :
       LogCreated(r) =>
         /\ refreshLogs'[r].papersFetched >= refreshLogs[r].papersFetched
         /\ refreshLogs'[r].papersProcessed >= refreshLogs[r].papersProcessed]_vars

\* C10 witness: a RunLog whose counters were written by a flush in the loop,
\* by the final flush and by the finalization.
C10_Witness ==
  \E r \in RunIds :
    /\ refreshLogs[r].status = "completed"
    /\ refreshLogs[r].papersProcessed > BATCH_SIZE
    /\ refreshLogs[r].papersFetched = MaxFeed

Counters(log) == <<log.papersFetched, log.papersProcessed>>
Persisted(r) == \A d \in SeqToSet(run[r].papersBuffer) : Row(d, r) \in papers

\* C11 (SpecAdmin): for each flush the batch insert completes before the
\* RunLog counter update: while the counter update of a flush is pending the
\* buffered Records are rows of the papers table; the step that inserts
\* writes no counter; and the counters are written only by the counter update
\* of a flush whose insert succeeded or by the finalization of the run.
C11_InsertBeforeCounters ==
  /\ [](\A r \in RunIds :
          run[r].pc \in {"flushUpdate", "finalUpdate"} => Persisted(r))
  /\ [][\A r \in RunIds :
          Counters(refreshLogs'[r]) # Counters(refreshLogs[r]) =>
            \/ run[r].pc \in {"complete", "finalizeError"}
            \/ /\ run[r].pc \in {"flushUpdate", "finalUpdate"}
               /\ Persisted(r)
               /\ papers' = papers]_vars

\* C11 witness: a flush in the loop failed and wrote no counter; the next
\* flush inserted the whole buffer and then reported it.
C11_Witness ==
  \E r \in RunIds :
    /\ run[r].pc = "loop" /\ run[r].errors > 0 /\ run[r].annErrors = 0
    /\ refreshLogs[r].status = "in_progress"
    /\ refreshLogs[r].papersProcessed = MaxFeed
    /\ \A d \in SeqToSet(feed) : Row(d, r) \in papers

\* C12 as stated (SpecAdmin): at no point in a run does the buffer hold more
\* than BATCH_SIZE unflushed records.
C12_BufferBounded ==
  \A r \in RunIds : Len(run[r].papersBuffer) <= BATCH_SIZE

\* max(1, ceil(T / PAGE_SIZE))
Pages(T) == IF T = 0 THEN 1 ELSE (T + PAGE_SIZE - 1) \div PAGE_SIZE

PagingPcs == {"fetch", "dedup", "raceCheck", "loop", "annotating", "flushInsert", "flushUpdate"}
AfterLoopPcs == {"finalInsert", "finalUpdate", "complete", "recompute"}

\* C13 (SpecPaging): the n-th page request is made at cursor (n-1)*PAGE_SIZE,
\* and a further request only after a full page that left the cumulative
\* fetched count below the feed's total; a run never makes more than
\* max(1, ceil(T/PAGE_SIZE)) requests and has made exactly that many when
\* its pagination loop has ended; and the loop ends, every awaited operation
\* settling.
C13_Pagination ==
  /\ [](\A r \in RunIds :
          LET s == run[r] IN
          /\ s.feedCalls <= Pages(Len(feed))
          /\ s.pc = "fetch" =>
                /\ s.cursor = PAGE_SIZE * s.feedCalls
                /\ s.feedCalls > 0 =>
                      (Len(s.page) = PAGE_SIZE /\ s.fetched < Len(feed))
          /\ (s.pc \in AfterLoopPcs \/ s.result = "FetchResult") =>
                /\ s.feedCalls = Pages(Len(feed))
                /\ s.fetched = Len(feed))
  /\ [](run[1].pc \in PagingPcs => <>(run[1].pc \notin PagingPcs))

\* C13 witness: a feed of more than one page: a full page and a short one
\* were requested and the run has completed.
C13_Witness ==
  /\ Len(feed) > PAGE_SIZE
  /\ run[1].result = "FetchResult"
  /\ run[1].feedCalls = 2 /\ run[1].fetched = Len(feed)

Span == interval.intervalEnd - interval.intervalStart

\* C14 (SpecInterval): without a look-back argument the interval ends now
\* and spans 7 days when no RunLog exists, and otherwise n days, n being the
\* whole days elapsed since the RunLog with the latest date, capped at 7; it
\* never spans more than 7 days.
C14_AutomaticInterval ==
  (interval.pc = "done" /\ interval.forcedDaysBack[1] = "undefined") =>
    /\ interval.intervalEnd = interval.now
    /\ Span <= 7 * DayMs
    /\ interval.logs = {} => Span = 7 * DayMs
    /\ \A last \in interval.logs :
         (\A e \in interval.logs : e <= last) =>
           \E n \in 0..7 :
             /\ Span = n * DayMs
             /\ n * DayMs <= interval.now - last
             /\ n = 7 \/ interval.now - last < (n + 1) * DayMs

\* C14 witness: the latest of two RunLogs is 2 days old: the interval spans
\* exactly 2 days.
C14_Witness ==
  /\ interval.pc = "done" /\ interval.forcedDaysBack[1] = "undefined"
  /\ interval.logs = {interval.now - 2 * DayMs, interval.now - 5 * DayMs}
  /\ Span = 2 * DayMs

\* C15 as stated (SpecInterval): with a look-back d supplied the interval is
\* [now - d, now), the start clamped to now, for every d, and the RunLogs
\* are not read.
C15_ForcedInterval ==
  (interval.pc # "idle" /\ interval.forcedDaysBack[1] = "number") =>
    LET d == interval.forcedDaysBack[2] IN
    /\ interval.pc = "done"
    /\ interval.intervalEnd = interval.now
    /\ interval.intervalStart = IF d < 0 THEN interval.now ELSE interval.now - d * DayMs
    /\ ~interval.consulted

\* C16 (SpecAdmin): while recomputeFilters is called the RunLog already has
\* status completed and the final counters; recomputeFilters is called
\* exactly by the runs that complete with processed > 0; whether it succeeds
\* or fails, the run returns its result and the RunLog is left as it is.
C16_CompletedBeforeRecompute ==
  /\ [](\A r \in RunIds :
          LET s == run[r] IN
          /\ s.pc = "recompute" =>
                /\ s.processed > 0
                /\ refreshLogs[r] = [status |-> "completed", papersFetched |-> s.fetched,
                                     papersProcessed |-> s.processed]
          /\ s.result = "FetchResult" => (s.recomputed <=> s.processed > 0)
          /\ s.result = "Error" => ~s.recomputed)
  /\ [][\A r \in RunIds :
          run'[r].recomputed # run[r].recomputed =>
            /\ run'[r].result = "FetchResult"
            /\ run'[r].processed = run[r].processed
            /\ refreshLogs' = refreshLogs]_vars

\* C16 witness: recomputeFilters failed; the run has returned a result and
\* its RunLog is completed.
C16_Witness ==
  \E r \in RunIds :
    /\ run[r].recomputeFailed
    /\ run[r].result = "FetchResult"
    /\ refreshLogs[r].status = "completed"

\* C17 (SpecAdmin): the error finalization always ends in the return of the
\* error that ended the run; when the write of status error fails, that
\* failure is swallowed: the run still returns an Error with the original
\* message (the feed's, after a feed error) and the RunLog is left unwritten.
C17_StatusWriteFailureSwallowed ==
  /\ [][\A r \in RunIds :
          (run[r].pc = "finalizeError" /\ run'[r].pc # "finalizeError") =>
            /\ run'[r].pc = "done"
            /\ run'[r].result = "Error"
            /\ run'[r].message = run[r].message
            /\ run'[r].statusWriteFailed => refreshLogs' = refreshLogs]_vars
  /\ [](\A r \in RunIds :
          run[r].statusWriteFailed =>
            /\ run[r].result = "Error"
            /\ run[r].message = IF run[r].feedFailed THEN "feed" ELSE "storage")

\* C17 witness: a feed error ended the run, the write of status error
\* failed, and the run has returned the feed error.
C17_Witness ==
  \E r \in RunIds :
    /\ run[r].feedFailed /\ run[r].statusWriteFailed
    /\ run[r].result = "Error" /\ run[r].message = "feed"
    /\ refreshLogs[r].status \in {"in_progress", "interrupted"}

\* C18 as stated (SpecAdmin): a batch rejected for a DOI that is already a
\* row of the papers table is not an error: the step neither increments
\* errors nor sends the run to the error finalization.
C18_CollisionNotAnError ==
  [][\A r \in RunIds :
       run'[r].conflicts # run[r].conflicts =>
         /\ run'[r].errors = run[r].errors
         /\ run'[r].pc # "finalizeError"]_vars

\* The text evaluated and the JSON value it holds.
AnalysedText ==
  IF Falsy(analysis.response.content) THEN analysis.response.reasoning
  ELSE analysis.response.content

StringArray(v) == v.t = "array" /\ \A i \in 1..Len(v.a) : v.a[i].t = "string"

\* a string summary and a string-array keywords
ClaimedShape(p) == p.summary.t = "string" /\ StringArray(p.keywords)

\* ... in an object whose modelOrganism is absent or a string
SchemaShape(p) ==
  p.t = "object" /\ ClaimedShape(p) /\ p.modelOrganism.t \in {"undefined", "string"}

\* The classification in the stated precedence, for a notion of shape.
Classified(Shape(_)) ==
  LET resp == analysis.response
      res == analysis.result
  IN IF resp.thrown \/ (resp.status \in 200..299 /\ ~resp.dataOk)
       THEN res.error \notin {"", "none"}
     ELSE IF ~(resp.status \in 200..299)
       THEN res.error = "OpenRouter API error" /\ res.status = resp.status
     ELSE IF Falsy(resp.content) /\ Falsy(resp.reasoning)
       THEN res.error = "No response returned from API"
     ELSE IF AnalysedText.kind # "json"
       THEN res.error = "Invalid JSON returned from API"
     ELSE IF ~Shape(AnalysedText.value)
       THEN res.error = "Invalid JSON structure returned from API"
     ELSE res.error = ""

\* C19 as stated (SpecAnalysis): non-2xx gives an error with the status; else
\* no text gives 'No response returned from API'; else text that is not JSON
\* gives 'Invalid JSON returned from API'; else JSON without a string
\* summary and a string-array keywords gives 'Invalid JSON structure
\* returned from API'; else a result; an exception gives an error value.
C19_Classification ==
  analysis.pc = "done" => Classified(ClaimedShape)

\* C19 amended (SpecAnalysis): the same precedence, the structure error being
\* given for JSON that is not an object with a string summary, a
\* string-array keywords and a modelOrganism that is absent or a string; an
\* exception (fetch, or reading the response body) gives the error value
\* 'Failed to generate paper analysis'.
C19_ClassificationBySchema ==
  analysis.pc = "done" =>
    /\ Classified(SchemaShape)
    /\ (analysis.response.thrown \/ ~analysis.response.dataOk) =>
          \/ analysis.result.error = "Failed to generate paper analysis"
          \/ analysis.result.error = "OpenRouter API error"

\* C19 witness: JSON with a string summary, a string-array keywords and
\* modelOrganism null was answered with the structure error.
C19_Witness ==
  /\ analysis.pc = "done"
  /\ AnalysedText.kind = "json"
  /\ ClaimedShape(AnalysedText.value)
  /\ AnalysedText.value.modelOrganism.t = "null"
  /\ analysis.result.error = "Invalid JSON structure returned from API"

Blank(c) == \A i \in 1..Len(c) : c[i] = " "
Spaces(n) == [i \in 1..n |-> " "]
\* out is the input without its leading and trailing whitespace
IsTrimOf(out, in) ==
  /\ out # <<>> => (out[1] # " " /\ out[Len(out)] # " ")
  /\ \E a, b \in 0..Len(in) : in = Spaces(a) \o out \o Spaces(b)

\* C20 (SpecAnalysis): a successful result has the input summary trimmed,
\* and its keywords are the first 5 of the input keywords that are not
\* blank, each trimmed, in input order: at most 5, none empty, none with
\* surrounding whitespace.
C20_Normalised ==
  (analysis.pc = "done" /\ analysis.result.error = "") =>
    LET in == AnalysedText.value
        out == analysis.result.data
        kin == in.keywords.a
        NB == { i \in 1..Len(kin) : ~Blank(kin[i].s) }
        n == Min2(5, Cardinality(NB))
    IN /\ IsTrimOf(out.summary, in.summary.s)
       /\ Len(out.keywords) = n
       /\ \A j \in 1..Len(out.keywords) :
            /\ out.keywords[j] # <<>>
            /\ \E i \in NB :
                 /\ Cardinality({ x \in NB : x <= i }) = j
                 /\ IsTrimOf(out.keywords[j], kin[i].s)

\* C20 witness: of 7 input keywords two are blank, the first is padded: the
\* result holds 5 keywords, the first one trimmed, and a trimmed summary.
C20_Witness ==
  /\ analysis.pc = "done" /\ analysis.result.error = ""
  /\ LET in == AnalysedText.value
         out == analysis.result.data
     IN /\ Len(in.keywords.a) = 7
        /\ Blank(in.keywords.a[2].s) /\ Blank(in.keywords.a[4].s)
        /\ Len(out.keywords) = 5
        /\ out.keywords[1] # in.keywords.a[1].s
        /\ out.keywords[5] = <<"a">> /\ in.keywords.a[7].s = <<"a">>
        /\ out.summary # in.summary.s

\* C21 as stated (SpecRate): with no API credential configured a call of
\* generateSummaryAndKeywords sends no request, never sleeps for the
\* rate-limit delay, and returns the error 'OPENROUTER_API_KEY not set'.
C21_FailsFastWithoutKey ==
  ~apiKey =>
    \A c \in CallIds :
      /\ call[c].requests = 0
      /\ call[c].pc # "rateSleep"
      /\ call[c].done => call[c].error = "OPENROUTER_API_KEY not set"

C23_FeedResults ==
  /\ feedCall.requests <= 1
  /\ feedCall.pc = "done" =>
       LET x == feedCall.exchange
           res == feedCall.result
           d == x.data
           statusMissing == \/ d.kind # "object"
                            \/ d.messages.kind # "array"
                            \/ d.messages.first.kind # "object"
                            \/ d.messages.first.status[1] # "string"
           collectionMissing == d.collection.kind # "array"
           generic == res.error = "Failed to fetch papers from BioRxiv"
       IN /\ feedCall.requests = 1
          /\ IF x.thrown THEN generic
             ELSE IF ~(x.status \in 200..299)
               THEN res.error = "BioRxiv API error" /\ res.status = x.status
             ELSE IF ~x.dataOk THEN generic
             ELSE IF statusMissing \/ collectionMissing
               THEN res.error = "Invalid response from BioRxiv API"
             ELSE IF d.messages.first.status[2] # "ok"
               THEN /\ res.error = "BioRxiv API returned non-ok status"
                    /\ res.rawStatus = d.messages.first.status[2]
             ELSE IF \E i \in 1..Len(d.collection.items) : d.collection.items[i] # "good"
               THEN generic
             ELSE /\ res.error = ""
                  /\ res.papers = Len(d.collection.items)
                  /\ res.total = IF d.messages.first.total[1] = "digits"
                                   THEN d.messages.first.total[2] ELSE 0

\* C23 witness: a response with status ok, two records and total "3" was
\* returned as {papers, total}.
C23_Witness ==
  /\ feedCall.pc = "done" /\ feedCall.requests = 1
  /\ feedCall.result.error = ""
  /\ feedCall.result.papers = 2 /\ feedCall.result.total = 3


\* C24: when recomputeFilters has returned normally and nothing was written
\* since, the keyword table holds exactly one row per keyword of some paper,
\* counting the papers that carry it, and the organism table exactly one
\* row per non-null organism, counting the papers that have it.
C24_FullyDerived ==
  facets.fresh =>
    /\ \A k \in {"k1", "k2"} :
         LET n == Cardinality({ i \in DOMAIN facets.rows :
                                  \E j \in 1..Len(facets.rows[i].keywords) : facets.rows[i].keywords[j] = k })
         IN IF n = 0 THEN k \notin DOMAIN facets.keywordFilters
            ELSE k \in DOMAIN facets.keywordFilters /\ facets.keywordFilters[k] = n
    /\ \A o \in {"x"} :
         LET n == Cardinality({ i \in DOMAIN facets.rows : facets.rows[i].modelOrganism = o })
         IN IF n = 0 THEN o \notin DOMAIN facets.organismFilters
            ELSE o \in DOMAIN facets.organismFilters /\ facets.organismFilters[o] = n
    /\ NoOrganism \notin DOMAIN facets.organismFilters


\* The records a request with the given filters matches: the search text
\* occurs in the title or the summary, letters compared without case, and
\* the type is the type filter.
Contains(text, chars) == \E j \in 1..Len(text) : text[j] \in chars
MatchingRecords(q) ==
  { i \in DOMAIN facets.rows :
      /\ q.searchQuery = <<"a">> =>
           Contains(facets.rows[i].title, {"a", "A"}) \/ Contains(facets.rows[i].summary, {"a", "A"})
      /\ q.typeFilter = "new" => facets.rows[i].type = "new" }

\* The counts per label over the matching records.
Aggregated(q) ==
  LET has(i, l) == IF q.kind = "keyword" THEN Contains(facets.rows[i].keywords, {l})
                   ELSE facets.rows[i].modelOrganism = l
      n(l) == Cardinality({ i \in MatchingRecords(q) : has(i, l) })
  IN [l \in { l \in {"k1", "k2", "x"} : n(l) > 0 } |-> n(l)]

\* C25: a filter query reads the precomputed table only when it has neither a
\* search filter nor a type filter, and then returns the table's rows when it
\* could be read and has some; a query with a filter never reads the table,
\* runs the live aggregation, and returns its counts over the matching
\* records (the empty list when the live query fails).
C25_FilterSource ==
  LET q == facets.query
      table == IF q.kind = "keyword" THEN facets.keywordFilters ELSE facets.organismFilters
      filtered == q.searchQuery # <<>> \/ q.typeFilter # ""
  IN q.kind # "none" =>
       /\ q.readTable => ~filtered
       /\ filtered => /\ ~q.readTable
                      /\ q.ranLive
                      /\ q.result = IF q.liveOk THEN Aggregated(q) ELSE NoRows
       /\ ~filtered /\ q.tableOk /\ DOMAIN table # {} => ~q.ranLive /\ q.result = table

\* A filtered keyword query answered with counts that differ from the table's.
C25_Witness ==
  /\ facets.query.kind = "keyword"
  /\ facets.query.searchQuery = <<"a">>
  /\ facets.query.liveOk
  /\ DOMAIN facets.query.result # {}
  /\ DOMAIN facets.keywordFilters # {}
  /\ facets.query.result # facets.keywordFilters


\* C26: a reset-status request that succeeds turns the status of every
\* in_progress RunLog into interrupted and answers 200; one that fails
\* answers 500 {error: 'Failed to reset status'} and changes no RunLog.
\* Either way the other RunLogs, the counters, the Records and the local
\* state of a run that is executing are as before.
C26_SweepFrame ==
  [][ResetStatus =>
       /\ sweep'.status \in {200, 500}
       /\ sweep'.status = 500 => sweep'.body = "Failed to reset status" /\ refreshLogs' = refreshLogs
       /\ sweep'.status = 200 =>
            \A r \in RunIds :
              /\ refreshLogs'[r].status =
                   IF refreshLogs[r].status = "in_progress" THEN "interrupted" ELSE refreshLogs[r].status
              /\ refreshLogs'[r].papersFetched = refreshLogs[r].papersFetched
              /\ refreshLogs'[r].papersProcessed = refreshLogs[r].papersProcessed
       /\ papers' = papers
       /\ run' = run
       /\ feed' = feed]_vars

\* A sweep has interrupted the RunLog of a run that is in the middle of its
\* page loop, with a flushed batch behind it.
C26_Witness ==
  /\ sweep.status = 200
  /\ refreshLogs[1].status = "interrupted"
  /\ run[1].pc = "loop"
  /\ refreshLogs[1].papersProcessed > 0


\* The number the daysBack text reads as.
ExpectedArg ==
  LET f == refresh.field IN
  IF ~f.present \/ f.text = <<>> THEN <<"undefined", 0>>
  ELSE CASE f.text = <<"7">> -> <<"number", 7>>
         [] f.text = <<"0">> -> <<"number", 0>>
         [] f.text = <<"x">> -> <<"NaN", 0>>
         [] f.text = <<"1", "x">> -> <<"number", 1>>
         [] f.text = <<"-", "1">> -> <<"number", -1>>
         [] f.text = <<"1", "2">> -> <<"number", 12>>

\* C27: the refresh endpoint calls run at most once, with the number the
\* daysBack field reads as, or undefined when the field is absent or empty;
\* it answers 200 {success: true, result} when run returned a result, and
\* 500 {success: false, error: 'Refresh failed'} when run returned an Error,
\* run threw or the form could not be read; no exception leaves the handler.
C27_RefreshResponse ==
  /\ refresh.calls = IF refresh.pc = "idle" \/ ~refresh.formOk THEN 0 ELSE 1
  /\ refresh.calls = 1 => refresh.arg = ExpectedArg
  /\ refresh.pc = "done" =>
       /\ ~refresh.response.thrown
       /\ IF refresh.formOk /\ refresh.outcome.kind = "result"
            THEN /\ refresh.response.status = 200
                 /\ refresh.response.success
                 /\ refresh.response.result = refresh.outcome.processed
            ELSE /\ refresh.response.status = 500
                 /\ ~refresh.response.success
                 /\ refresh.response.error = "Refresh failed"

\* The run was called with 12 and returned an Error: the answer is 500.
C27_Witness ==
  /\ refresh.pc = "done"
  /\ refresh.arg = <<"number", 12>>
  /\ refresh.outcome.kind = "error"
  /\ refresh.response.status = 500


\* C28: a call of getInsights is served from the cache exactly when, at its
\* start, a cached value existed and was less than 30 minutes old; every
\* other call reads the storage; and the first call started after a
\* clearInsightsCache reads the storage.
C28_CacheServing ==
  \A r \in Readers :
    LET g == cache.reader[r] IN
    g.pc # "idle" =>
      /\ g.source = "cache" <=> (g.hadCache /\ g.age < 30 * 60 * 1000)
      /\ g.source # "cache" => g.source = "storage"
      /\ g.pc = "done" /\ g.source = "storage" => g.value[1] = "data" /\ g.readAt >= g.now
      /\ g.afterClear => g.source = "storage"


\* C29: the list getTopicMomentum returns when its queries succeed has at most TopN entries, each for
\* a different keyword with at least 2 recent occurrences, carrying the
\* keyword's recent and previous counts and the momentum
\* (recent - previous/5) / (previous/5), or recent when previous is 0; the
\* list is in descending order of momentum, and a keyword with at least 2
\* recent occurrences is left out only when the list is full and its
\* momentum does not exceed that of any entry.
C29_Momentum ==
  LET list == momentum.result
      c == momentum.counts
      m(k) == IF c[k].previous = 0 THEN <<c[k].recent, 1>>
              ELSE <<5 * c[k].recent - c[k].previous, c[k].previous>>
      Same(a, b) == a[1] * b[2] = b[1] * a[2]
      listed == { list[i].keyword : i \in 1..Len(list) }
  IN momentum.pc = "done" /\ momentum.dbOk =>
       /\ Len(list) <= TopN
       /\ \A i, j \in 1..Len(list) : i # j => list[i].keyword # list[j].keyword
       /\ \A i \in 1..Len(list) :
            LET e == list[i] IN
            /\ c[e.keyword].recent >= 2
            /\ e.recentCount = c[e.keyword].recent
            /\ e.previousCount = c[e.keyword].previous
            /\ Same(e.momentum, m(e.keyword))
       /\ \A i \in 1..(Len(list) - 1) : list[i].momentum[1] * list[i + 1].momentum[2]
                                          >= list[i + 1].momentum[1] * list[i].momentum[2]
       /\ \A k \in Keywords \ listed :
            c[k].recent >= 2 =>
              /\ Len(list) = TopN
              /\ \A i \in 1..Len(list) : m(k)[1] * list[i].momentum[2] <= list[i].momentum[1] * m(k)[2]


\* The positions of a line in the output.
LinesAt(line) == { i \in 1..Len(markdown.output) : markdown.output[i] = line }
Before(a, b) == \A i \in LinesAt(a), j \in LinesAt(b) : i < j

\* The structure of the output, for a given reading of "the field is absent".
Structure(Omitted(_)) ==
  LET d == markdown.data
      out == markdown.output
  IN /\ markdown.pc # "idle" =>
          /\ Len(d.title) = 1 /\ out[1] = "# " \o d.title[1]
          /\ out[2] = ""
          /\ LinesAt("## Abstract") = {} <=> Omitted(d.abstract)
          /\ LinesAt("## AI Summary") = {} <=> Omitted(d.summary)
          /\ LinesAt("## Keywords") = {} <=> (~d.keywords.present \/ d.keywords.value = <<>>)
          /\ Before("## Abstract", "## AI Summary")
          /\ Before("## AI Summary", "## Keywords")
          /\ Before("## Abstract", "## Keywords")
          /\ (\A i \in 1..Len(out) : out[i] \notin {"**Authors:** A", "**Authors:** A, B"})
               <=> d.authors = <<>>
     /\ markdown.pc = "done" => markdown.again = out

C31_ExistingSkipped ==
  [][\A r \in RunIds :
       LET s == run[r]
           t == run'[r]
           Quiet == /\ papers' = papers
                    /\ t.papersBuffer = s.papersBuffer
                    /\ t.processed = s.processed
                    /\ t.errors = s.errors
                    /\ t.annCalls = s.annCalls
                    /\ t.pc # "annotating"
       IN /\ (s.pc = "dedup" /\ t.pc \in {"raceCheck", "loop"}) =>
               /\ \A i \in 1..Len(t.newPapers) :
                    ~ \E row \in papers : row.doi = t.newPapers[i]
               /\ \A i \in 1..Len(s.page) :
                    (\E row \in papers : row.doi = s.page[i]) \/
                      (\E j \in 1..Len(t.newPapers) : t.newPapers[j] = s.page[i])
               /\ t.fetched = s.fetched + Len(s.page)
               /\ Quiet
          /\ (s.pc = "loop" /\ t # s /\ s.idx <= Len(s.newPapers)
                /\ s.newPapers[s.idx] \in s.raceCheckMap) =>
               /\ t.idx = s.idx + 1
               /\ t.fetched = s.fetched
               /\ Quiet]_vars

\* The run has passed over a record that the race recheck found in the
\* papers table as a row without a summary; the row is as it was.
C31_Witness ==
  /\ run[1].pc = "loop"
  /\ run[1].idx > 1
  /\ run[1].idx <= Len(run[1].newPapers) + 1
  /\ run[1].newPapers[run[1].idx - 1] \in run[1].raceCheckMap
  /\ [doi |-> run[1].newPapers[run[1].idx - 1], summary |-> FALSE, by |-> 0] \in papers
  /\ run[1].annCalls = 0
  /\ run[1].fetched > 0


\* The Records in storage that run r has inserted.
InsertedBy(r) == { row \in papers : row.by = r }

\* C32: the papersProcessed stored in a run's RunLog never exceeds the number
\* of Records the run has inserted.
C32_LogWithinPersisted ==
  \A r \in RunIds : refreshLogs[r].papersProcessed <= Cardinality(InsertedBy(r))


\* C33: when a run has returned its result and its RunLog is completed, the
\* processed count returned, the papersProcessed of the RunLog and the number
\* of Records the run inserted are the same, and the buffer is empty.
C33_CompletedCountsAgree ==
  \A r \in RunIds :
    (run[r].pc = "done" /\ refreshLogs[r].status = "completed") =>
      /\ run[r].result = "FetchResult"
      /\ run[r].processed = refreshLogs[r].papersProcessed
      /\ run[r].processed = Cardinality({ row \in papers : row.by = r })
      /\ run[r].papersBuffer = <<>>

\* A completed run that inserted records in more than one flush, one of them
\* after a flush that had failed.
C33_Witness ==
  /\ run[1].pc = "done"
  /\ refreshLogs[1].status = "completed"
  /\ run[1].processed = MaxFeed
  /\ run[1].errors > 0


\* C34: the buffer of a run never holds the same DOI twice, and a run makes
\* no more annotation calls than the feed has different DOIs.
C34_NoDoiTwice ==
  \A r \in RunIds :
    /\ \A i, j \in 1..Len(run[r].papersBuffer) :
         i # j => run[r].papersBuffer[i] # run[r].papersBuffer[j]
    /\ run[r].annCalls <= Cardinality({ feed[i] : i \in 1..Len(feed) })


\* C35: while a run is between flushes or about to insert its buffer, no
\* record of the buffer is a Record the run has already inserted.
C35_BufferNotPersisted ==
  \A r \in RunIds :
    run[r].pc \in {"fetch", "dedup", "raceCheck", "loop", "annotating", "flushInsert", "finalInsert"} =>
      \A i \in 1..Len(run[r].papersBuffer) :
        [doi |-> run[r].papersBuffer[i], summary |-> TRUE, by |-> r] \notin papers


\* C36: once the status of a RunLog is completed, error or interrupted, no
\* step changes it.
C36_TerminalStatus ==
  [][\A r \in RunIds :
       refreshLogs[r].status \in {"completed", "error", "interrupted"} =>
         refreshLogs'[r].status = refreshLogs[r].status]_vars

\* C36 (amended): once the status of a RunLog is completed or error, no step
\* changes it, whatever the sweep and the run do afterwards.
C36_CompletedAndErrorStay ==
  [][\A r \in RunIds :
       refreshLogs[r].status \in {"completed", "error"} =>
         refreshLogs'[r].status = refreshLogs[r].status]_vars

\* A run has returned with its log finalized and the sweep has answered 200.
C36_Witness ==
  /\ sweep.status = 200
  /\ \E r \in RunIds :
       /\ run[r].pc = "done"
       /\ refreshLogs[r].status \in {"completed", "error"}

\* C37: a feed record the first run fetched and did not persist, dated at
\* most 7 days before the start of the next automatic run, lies inside the
\* interval that run asks the feed for.
C37_Resumable ==
  (/\ resume.pc = "done"
   /\ resume.fate \in {"annotationFailed", "aborted"}
   /\ resume.t2 - resume.recordDay * DayMs <= 7 * DayMs)
    => /\ resume.startDate <= resume.recordDay
       /\ resume.recordDay <= resume.endDate

\* C38: every annotation the run accepts (no error key, so the record is
\* pushed to papersBuffer with this summary and inserted by the flush) has a
\* non-empty summary.
C38_InsertedHasSummary ==
  (analysis.pc = "done" /\ analysis.result.error = "") =>
    Len(analysis.result.data.summary) > 0

\* C39: in every FetchResult an invocation returns, processed + errors is at
\* most fetched.
C39_CountedOnce ==
  \A r \in RunIds :
    (run[r].pc = "done" /\ run[r].result = "FetchResult") =>
      run[r].processed + run[r].errors <= run[r].fetched

\* C40: no call of getInsights that starts after a clearInsightsCache returns
\* a value computed from storage reads made before that clear.
C40_NothingFromBeforeClear ==
  \A r \in Readers :
    (cache.reader[r].pc = "done" /\ cache.reader[r].source = "cache") =>
      ~cache.reader[r].stale

====
